---- MODULE Spec2Model ----
(***************************************************************************)
(* A model of rewriteX: the POST /api/process route handler                *)
(* (src/src/app/api/process/route.ts): request validation, prompt          *)
(* construction, the streaming completion call and the error mapping.      *)
(*                                                                         *)
(* Strings whose content is user text are modelled by their shape          *)
(* [lead, core, trail]: `lead` whitespace characters, then `core`          *)
(* characters that start and end with a non-whitespace character, then     *)
(* `trail` whitespace characters.  JavaScript's undefined and null are     *)
(* kept apart from every real value.  Temperatures are kept in tenths.     *)
(***************************************************************************)
EXTENDS Integers, Sequences, FiniteSets, TLC

\* ------------------------------------------------------------------ bounds

\* Most whitespace characters at each end of a text.
MaxPad == 1

\* Most submits and clicks on Retry Now in a behaviour of the page.
MaxSubmits == 2

\* Most fragments the provider sends in one stream.
MaxFragments == 2

\* Most calls of handleSubmit that pass its guard, when calls may overlap.
MaxInvocations == 3

\* Most entries the history keeps. historyUtils imports the value from
\* '../types/history'; the model takes a small one.
MAX_HISTORY_ENTRIES == 3

\* Most entries saved in a behaviour of the history panel.
MaxSaves == 5

\* Most chunks the provider sends to one run of processTextAction.
MaxChunks == 3

\* ------------------------------------------------- constants of route.ts

MAX_INPUT_TEXT_LENGTH == 20000
MIN_INPUT_TEXT_LENGTH == 10
DEFAULT_MODEL == "gpt-3.5-turbo"
VALID_MODELS == <<"gpt-3.5-turbo", "gpt-4">>
validTones == <<"formal", "casual", "creative">>

summaryDetailLevels ==
  [n \in 1..5 |->
     CASE n = 1 -> "Very Brief"
       [] n = 2 -> "Short"
       [] n = 3 -> "Medium"
       [] n = 4 -> "Long"
       [] n = 5 -> "Detailed"]

\* Object.keys(summaryDetailLevels).map(Number)
validSummaryLevels == [i \in 1..5 |-> i]

\* Array.prototype.includes
Includes(arr, x) == \E i \in DOMAIN arr : arr[i] = x

\* ------------------------------------------------------ JavaScript values

Undefined == "<undefined>"
Null == "<null>"

\* A value of the `text` field: undefined, null, a non-string JSON value
\* (number, boolean, array, object) or a string of the given shape.
TextValue(k, l, c, t) == [kind |-> k, lead |-> l, core |-> c, trail |-> t]
UndefinedText == TextValue("undefined", 0, 0, 0)
NullText == TextValue("null", 0, 0, 0)
NonStringText == TextValue("nonstring", 0, 0, 0)
Str(l, c, t) == TextValue("string", l, c, t)

\* String.prototype.length
Length(s) == s.lead + s.core + s.trail

\* String.prototype.trim: the whitespace at both ends is removed; a string
\* of whitespace only becomes the empty string.
Trim(s) == IF s.core = 0 THEN Str(0, 0, 0) ELSE Str(0, s.core, 0)

\* !text
FalsyText(text) ==
  \/ text.kind \in {"undefined", "null"}
  \/ text.kind = "string" /\ Length(text) = 0

\* A value of the `summaryLengthLevel` field: undefined, null or a number.
LevelValue(k, n) == [kind |-> k, n |-> n]
UndefinedLevel == LevelValue("undefined", 0)
NullLevel == LevelValue("null", 0)
Num(n) == LevelValue("number", n)

\* ----------------------------------------------------------------- inputs

CoreLens ==
  {0, MIN_INPUT_TEXT_LENGTH - 1, MIN_INPUT_TEXT_LENGTH,
   (MIN_INPUT_TEXT_LENGTH + MAX_INPUT_TEXT_LENGTH) \div 2,
   MAX_INPUT_TEXT_LENGTH, MAX_INPUT_TEXT_LENGTH + 1}

Texts ==
  {UndefinedText, NullText, NonStringText}
  \cup {Str(l, c, t) : l \in 0..MaxPad, c \in CoreLens, t \in 0..MaxPad}

Modes == {Undefined, "summarize", "rewrite", "translate"}
Tones == {Undefined, "formal", "casual", "creative", "angry"}
Levels == {UndefinedLevel, NullLevel} \cup {Num(n) : n \in 0..6}
Models == {Undefined, "gpt-3.5-turbo", "gpt-4", "gpt-5"}
PromptStructures == {Undefined, "system-heavy", "user-heavy"}

\* RequestBody as it arrives: req.json() fails on a body that is not JSON,
\* and succeeds on any JSON value (null, a scalar or array, an object).
Body(k, text, mode, tone, level, model, ps) ==
  [kind |-> k, text |-> text, mode |-> mode, tone |-> tone,
   summaryLengthLevel |-> level, model |-> model, promptStructure |-> ps]

\* A body with no field of the request: every field reads as undefined.
FieldlessBody(k) ==
  Body(k, UndefinedText, Undefined, Undefined, UndefinedLevel, Undefined,
       Undefined)

Bodies ==
  {FieldlessBody(k) : k \in {"malformed", "null", "scalar"}}
  \cup {Body("object", text, mode, tone, level, model, ps) :
          text \in Texts, mode \in Modes, tone \in Tones, level \in Levels,
          model \in Models, ps \in PromptStructures}

\* process.env as the handler reads it.
Envs == [OPENAI_API_KEY : BOOLEAN, NODE_ENV : {"production", "development"}]

\* ----------------------------------------------------- responses, errors

NoDetails == [absent |-> TRUE]
HasDetails(r) == "absent" \notin DOMAIN r.details

NoResponse ==
  [kind |-> "none", status |-> 0, code |-> "", error |-> <<>>,
   details |-> NoDetails]

\* NextResponse.json<ErrorResponse>({code, error, details}, {status})
JsonResponse(code, error, details, status) ==
  [kind |-> "json", status |-> status, code |-> code, error |-> error,
   details |-> details]

\* new StreamingTextResponse(stream)
StreamingTextResponse ==
  [kind |-> "stream", status |-> 200, code |-> "", error |-> <<>>,
   details |-> NoDetails]

\* error.status of an OpenAI.APIError: a number, or undefined when the
\* request never got an HTTP answer (APIConnectionError).
StatusValue(k, n) == [kind |-> k, n |-> n]
UndefinedStatus == StatusValue("undefined", 0)

\* A thrown value: an OpenAI.APIError, another Error, or a non-Error value.
Thrown(class, name, status, code, type, message, stack) ==
  [class |-> class, name |-> name, status |-> status, code |-> code,
   type |-> type, message |-> message, stack |-> stack]
NoError == Thrown("none", "", UndefinedStatus, Null, Null, "", "")
TypeError(message) ==
  Thrown("Error", "TypeError", UndefinedStatus, Null, Null, message,
         "TypeError: at POST (route.ts)")

\* -------------------------------------------------------------- variables

VARIABLES
  env,                \* process.env
  body,               \* the body of the request being handled
  pc,                 \* the handler's position
  trimmedTextLength,  \* local of POST, 0 until assigned
  selectedModel,      \* local of POST, Undefined until assigned
  messages,           \* local of POST, <<>> until assigned
  providerCalls,      \* the calls made to openai.chat.completions.create
  thrown,             \* the value caught by the handler's catch block
  response            \* what the handler returned

vars ==
  <<env, body, pc, trimmedTextLength, selectedModel, messages,
    providerCalls, thrown, response>>

\* The page (HomePage) that sends requests to the handler, and the stream of
\* fragments between the provider and the page.
VARIABLES
  page,            \* which version of the page runs: "part_001" (the page
                   \* with history) or "page.tsx"
  ui,              \* inputText, mode, selectedTone, summaryLengthLevel,
                   \* selectedModel: the form's state
  isLoading,       \* useState<boolean>(false)
  finalOutput,     \* local of handleSubmit: the fragments read so far
  streamingState,  \* text (the fragments displayed), isComplete, chunks
  historyEntries,  \* useState<HistoryEntry[]>([])
  toasts,          \* the toasts shown, oldest first
  cpc,             \* handleSubmit's position
  stream,          \* the body of the streaming response
  userActions,     \* submits and clicks on Retry Now so far
  requestsSent,    \* calls of fetch('/api/process') so far
  invocations,     \* the calls of handleSubmit that passed its guard, when
                   \* calls may overlap: each one's position, response
                   \* body and finalOutput
  localStorage,    \* the list stored under HISTORY_STORAGE_KEY, <<>> when
                   \* there is no item
  historyDisplay,  \* HistoryDisplay's state: historyEntries and sortBy
  now,             \* Date.now() at the latest entry created
  generator        \* a run of processTextAction: its arguments, its
                   \* position, the provider's chunks and the items yielded

clientVars ==
  <<page, ui, isLoading, finalOutput, streamingState, historyEntries, toasts, cpc,
    stream, userActions, requestsSent, invocations, localStorage,
    historyDisplay, now, generator>>

storeVars == <<localStorage, historyDisplay, now>>

allVars == <<vars, clientVars>>

\* The form as the page first renders it.
InitialUi ==
  [inputText |-> Str(0, 0, 0), mode |-> "summarize",
   selectedTone |-> "formal", summaryLengthLevel |-> 3,
   selectedModel |-> "gpt-3.5-turbo"]

\* No response body yet.
NoStream == [state |-> "none", sent |-> 0, read |-> 0]

\* useState<StreamingState>({text: '', isComplete: false, chunks: 0, ...})
InitialStreamingState == [text |-> <<>>, isComplete |-> FALSE, chunks |-> 0]

\* processTextAction has not been called.
NoGenerator ==
  [pc |-> "none", client |-> FALSE, text |-> Str(0, 0, 0), chunks |-> <<>>,
   accumulatedContent |-> <<>>, thrown |-> [class |-> "none"],
   yielded |-> <<>>]

\* The page before the user has done anything.
ClientAtRest ==
  /\ isLoading = FALSE
  /\ finalOutput = <<>>
  /\ streamingState = InitialStreamingState
  /\ historyEntries = <<>>
  /\ toasts = <<>>
  /\ cpc = "idle"
  /\ stream = NoStream
  /\ userActions = 0
  /\ requestsSent = 0
  /\ invocations = <<>>
  /\ localStorage = <<>>
  /\ historyDisplay = [historyEntries |-> <<>>, sortBy |-> "newest"]
  /\ now = 0
  /\ generator = NoGenerator

Init ==
  /\ env \in Envs
  /\ body \in Bodies
  /\ pc = "apiKey"
  /\ trimmedTextLength = 0
  /\ selectedModel = Undefined
  /\ messages = <<>>
  /\ providerCalls = <<>>
  /\ thrown = NoError
  /\ response = NoResponse
  /\ page = "part_001"
  /\ ui = InitialUi
  /\ ClientAtRest

\* return NextResponse.json(...): the handler ends with this response.
Return(r) ==
  /\ response' = r
  /\ pc' = "done"
  /\ UNCHANGED <<env, body, trimmedTextLength, selectedModel, messages,
                 providerCalls, thrown, clientVars>>

\* Control passes to the next statement.
Goto(label) ==
  /\ pc' = label
  /\ UNCHANGED <<env, body, trimmedTextLength, selectedModel, messages,
                 providerCalls, thrown, response, clientVars>>

\* An exception thrown inside the try block reaches the catch block.
Throw(e) ==
  /\ thrown' = e
  /\ pc' = "catch"
  /\ UNCHANGED <<env, body, trimmedTextLength, selectedModel, messages,
                 providerCalls, response, clientVars>>

\* ------------------------------------------------------- POST: validation

\* Mutant: the prerequisite check is left out.
CheckApiKeySkipped ==
  /\ pc = "apiKey"
  /\ Goto("parse")

\* Essential prerequisite check: API key.
CheckApiKey ==
  /\ pc = "apiKey"
  /\ IF ~env.OPENAI_API_KEY
       THEN Return(JsonResponse("MISSING_API_KEY",
              <<"Server configuration error. Please contact the administrator.">>,
              NoDetails, 500))
       ELSE Goto("parse")

\* 1. body = await req.json()
ParseBody ==
  /\ pc = "parse"
  /\ IF body.kind = "malformed"
       THEN Return(JsonResponse("INVALID_JSON",
              <<"Invalid request body: Must be valid JSON.">>, NoDetails, 400))
       ELSE Goto("destructure")

\* const { text, mode, ... } = body throws on null; the log line that
\* follows calls text?.substring(0, 50), which throws when text is neither
\* nullish nor a string.
Destructure ==
  /\ pc = "destructure"
  /\ IF body.kind = "null"
       THEN Throw(TypeError("Cannot destructure property 'text' of 'body' as it is null."))
       ELSE IF body.text.kind = "nonstring"
         THEN Throw(TypeError("text?.substring is not a function"))
         ELSE Goto("check2a")

\* Check 2a: basic text presence.
TextMissing(text) ==
  \/ FalsyText(text)
  \/ text.kind # "string"
  \/ Length(Trim(text)) = 0

CheckText ==
  /\ pc = "check2a"
  /\ IF TextMissing(body.text)
       THEN Return(JsonResponse("MISSING_TEXT",
              <<"Input text cannot be empty.">>, NoDetails, 400))
       ELSE Goto("check2b")

\* Mutant: the length of the text as sent, not trimmed.
RawTextLength(text) == Length(text)

\* Check 2b: text length limits.
TrimmedTextLength(text) == Length(Trim(text))

CheckLength ==
  /\ pc = "check2b"
  /\ LET len == TrimmedTextLength(body.text) IN
       IF len < MIN_INPUT_TEXT_LENGTH
         THEN Return(JsonResponse("TEXT_TOO_SHORT",
                   <<"Input text is too short. Please provide at least ",
                     ToString(MIN_INPUT_TEXT_LENGTH), " characters.">>,
                   [minLength |-> MIN_INPUT_TEXT_LENGTH, actualLength |-> len],
                   400))
         ELSE IF len > MAX_INPUT_TEXT_LENGTH
           THEN Return(JsonResponse("TEXT_TOO_LONG",
                   <<"Input text is too long. Please limit input to ",
                     ToString(MAX_INPUT_TEXT_LENGTH), " characters.">>,
                   [maxLength |-> MAX_INPUT_TEXT_LENGTH, actualLength |-> len],
                   400))
           ELSE /\ trimmedTextLength' = len
                /\ pc' = "check2c"
                /\ UNCHANGED <<env, body, selectedModel, messages,
                               providerCalls, thrown, response, clientVars>>

\* Mutant: only a missing mode is rejected.
ModeInvalidOnlyMissing(mode) == mode \in {Undefined, Null, ""}

\* Check 2c: mode validity.
ModeInvalid(mode) ==
  \/ mode \in {Undefined, Null, ""}
  \/ mode # "summarize" /\ mode # "rewrite"

CheckMode ==
  /\ pc = "check2c"
  /\ IF ModeInvalid(body.mode)
       THEN Return(JsonResponse("INVALID_MODE",
              <<"Invalid processing mode specified. Must be 'summarize' or 'rewrite'.">>,
              [receivedMode |-> body.mode], 400))
       ELSE Goto("check2d")

\* Mutant: only a missing level is rejected, the range is not checked.
SummaryLevelInvalidOnlyMissing(level) ==
  level.kind \in {"undefined", "null"}

\* Check 2d: required options based on mode.
SummaryLevelInvalid(level) ==
  \/ level.kind = "undefined"
  \/ level.kind = "null"
  \/ ~Includes(validSummaryLevels, level.n)

ToneInvalid(tone) ==
  \/ tone \in {Undefined, Null, ""}
  \/ ~Includes(validTones, tone)

SummaryLevelErrorCode == "MISSING_SUMMARY_LEVEL"
ToneErrorCode == "MISSING_TONE"

CheckOptions ==
  /\ pc = "check2d"
  /\ IF body.mode = "summarize"
       THEN IF SummaryLevelInvalid(body.summaryLengthLevel)
         THEN Return(JsonResponse(SummaryLevelErrorCode,
                <<"Invalid or missing summary detail level specified for summarize mode. Must be between ",
                  ToString(validSummaryLevels[1]), " and ",
                  ToString(validSummaryLevels[Len(validSummaryLevels)]), ".">>,
                [receivedLevel |-> body.summaryLengthLevel,
                 validLevels |-> validSummaryLevels], 400))
         ELSE Goto("check2e")
       ELSE IF ToneInvalid(body.tone)
         THEN Return(JsonResponse(ToneErrorCode,
                <<"Invalid or missing tone specified for rewrite mode. Must be one of: formal, casual, creative.">>,
                [receivedTone |-> body.tone, validTones |-> validTones], 400))
         ELSE Goto("check2e")

\* Mutant: a missing model is let through (and falls back to the default).
ModelInvalidAllowMissing(model) ==
  /\ model \notin {Undefined, Null, ""}
  /\ ~Includes(VALID_MODELS, model)

\* Check 2e: model validation.
ModelInvalid(model) ==
  \/ model \in {Undefined, Null, ""}
  \/ ~Includes(VALID_MODELS, model)

\* Mutant: the model check is left out.
CheckModelSkipped ==
  /\ pc = "check2e"
  /\ Goto("build")

CheckModel ==
  /\ pc = "check2e"
  /\ IF ModelInvalid(body.model)
       THEN Return(JsonResponse("INVALID_MODEL",
              <<"Invalid or missing model specified. Must be one of: gpt-3.5-turbo, gpt-4.">>,
              [receivedModel |-> body.model, validModels |-> VALID_MODELS],
              400))
       ELSE Goto("build")

\* Ensure we have a valid model for the API call.
SelectedModel(model) ==
  IF Includes(VALID_MODELS, model) THEN model ELSE DEFAULT_MODEL

\* ------------------------------------------------ POST: prompt construction

\* The one-shot examples.
examples ==
  [summarize |->
     [veryBrief |->
        [input |-> "The meteorological forecast predicts significant precipitation commencing in the early morning hours, potentially impacting commuter routes. Atmospheric pressure is dropping, indicating an approaching low-pressure system. Temperatures will remain moderate.",
         output |-> "Heavy rain expected early tomorrow, may affect commutes."],
      detailed |->
        [input |-> "The company's Q3 financial report shows a 15% revenue increase, driven by strong performance in the European market. Operating costs rose by 8%, primarily due to expanded R&D investments. The board approved a new dividend policy, increasing shareholder returns by 20%.",
         output |-> "The company achieved 15% revenue growth in Q3, led by European market success. While operating costs increased 8% due to R&D expansion, the board responded with a 20% dividend increase for shareholders."]],
   rewrite |->
     [creative |->
        [input |-> "The company announced its quarterly earnings, showing a 10% increase in profit.",
         output |-> "The company's coffers swelled this quarter, boasting a shiny 10% boost in profits as announced."],
      formal |->
        [input |-> "The new product launch was a huge success, with sales going through the roof!",
         output |-> "The product launch achieved exceptional market performance, with sales exceeding all projections."],
      casual |->
        [input |-> "The implementation of the new policy resulted in a significant reduction in operational costs.",
         output |-> "The new policy really helped cut down on costs, making things run more smoothly around here."]]]

\* A message's content is the sequence of the pieces its template literal is
\* made of: literal text, an interpolated option, the interpolated input text.
Part(k, str, text) == [kind |-> k, s |-> str, text |-> text]
Lit(str) == Part("lit", str, Str(0, 0, 0))
Interp(str) == Part("interp", str, Str(0, 0, 0))
TextPart(text) == Part("text", "", text)

Message(role, content) == [role |-> role, content |-> content]

\* Mutant: the requested tone is not read.
RequestedToneAlwaysFormal(tone) == "formal"

\* tone ?? 'formal'
RequestedTone(tone) == IF tone \in {Undefined, Null} THEN "formal" ELSE tone

\* summaryLengthLevel ?? 3
RequestedLengthLevel(level) ==
  IF level.kind \in {"undefined", "null"} THEN 3 ELSE level.n

\* summaryDetailLevels[requestedLengthLevel]
RequestedLengthDesc(level) ==
  IF RequestedLengthLevel(level) \in DOMAIN summaryDetailLevels
    THEN summaryDetailLevels[RequestedLengthLevel(level)]
    ELSE Undefined

\* examples.summarize[requestedLengthLevel <= 2 ? 'veryBrief' : 'detailed']
SummarizeExample(level) ==
  IF RequestedLengthLevel(level) <= 2
    THEN examples.summarize.veryBrief
    ELSE examples.summarize.detailed

\* examples.rewrite[requestedTone]
RewriteExample(tone) ==
  CASE RequestedTone(tone) = "creative" -> examples.rewrite.creative
    [] RequestedTone(tone) = "formal" -> examples.rewrite.formal
    [] RequestedTone(tone) = "casual" -> examples.rewrite.casual

ExampleUser(ex) ==
  Message("user", <<Lit("Example Text:\n---\n"), Lit(ex.input), Lit("\n---")>>)

ExampleAssistant(ex) == Message("assistant", <<Lit(ex.output)>>)

MinimalSystem ==
  Message("system",
          <<Lit("You are a helpful AI assistant capable of text processing.")>>)

\* Mutant: the text is trimmed before it is put in the final message.
SummarizeSystemHeavyTrimmed(text, level) ==
  << Message("system",
       <<Lit("You are an expert AI text summarizer."),
         Interp(RequestedLengthDesc(level))>>),
     ExampleUser(SummarizeExample(level)),
     ExampleAssistant(SummarizeExample(level)),
     Message("user",
       <<Lit("Please process the following text according to the requirements defined in the system prompt:\n\n---\n"),
         TextPart(Trim(text)),
         Lit("\n---")>>) >>

SummarizeSystemHeavy(text, level) ==
  << Message("system",
       <<Lit("You are an expert AI text summarizer. Your task is to produce a concise and accurate summary of the user's text.\nCRITICAL: Output *only* the summarized text. Do not include any introductory phrases, greetings, or conversational filler like \"Here is the summary:\".\nKey Requirements:\n- Adhere strictly to the requested detail level: '"),
         Interp(RequestedLengthDesc(level)),
         Lit("'. Adjust length and detail accordingly.\n- Focus on extracting the main argument and key factual points.\n- Target audience is general; explain complex ideas simply if possible.\n- Ensure the summary flows well and is grammatically correct.")>>),
     ExampleUser(SummarizeExample(level)),
     ExampleAssistant(SummarizeExample(level)),
     Message("user",
       <<Lit("Please process the following text according to the requirements defined in the system prompt:\n\n---\n"),
         TextPart(text),
         Lit("\n---")>>) >>

SummarizeUserHeavy(text, level) ==
  << MinimalSystem,
     ExampleUser(SummarizeExample(level)),
     ExampleAssistant(SummarizeExample(level)),
     Message("user",
       <<Lit("Task: Summarize the following text.\nInput Text:\n---\n"),
         TextPart(text),
         Lit("\n---\nConstraints:\n- Requested Detail Level: '"),
         Interp(RequestedLengthDesc(level)),
         Lit("'. Adjust summary length and detail accordingly.\n- Focus: Extract main argument and key factual points.\n- Audience: General audience, simplify complex ideas.\n- Quality: Ensure good flow and grammar.\n- Output Format: Output *only* the summarized text, without any introductory phrases.")>>) >>

RewriteSystemHeavy(text, tone) ==
  << Message("system",
       <<Lit("You are a highly skilled AI text rewriter. Your objective is to rewrite the user's text while precisely preserving the original meaning and all essential information.\nCRITICAL: Output *only* the rewritten text. No conversational filler.\nKey Requirements:\n- Strictly adhere to the requested tone: '"),
         Interp(RequestedTone(tone)),
         Lit("'.\n- Maintain this tone consistently throughout the output. ("),
         Lit("'Formal' = no contractions, sophisticated vocabulary"),
         Lit("; "),
         Lit("'Casual' = contractions, simpler language"),
         Lit("; "),
         Lit("'Creative' = vivid language/analogies, no new facts"),
         Lit(").\n- Ensure the rewritten text is fluent, grammatically perfect, and easy to read.")>>),
     ExampleUser(RewriteExample(tone)),
     ExampleAssistant(RewriteExample(tone)),
     Message("user",
       <<Lit("Please rewrite the following text based on the system prompt instructions:\n\n---\n"),
         TextPart(text),
         Lit("\n---")>>) >>

RewriteUserHeavy(text, tone) ==
  << MinimalSystem,
     ExampleUser(RewriteExample(tone)),
     ExampleAssistant(RewriteExample(tone)),
     Message("user",
       <<Lit("Task: Rewrite the following text.\nInput Text:\n---\n"),
         TextPart(text),
         Lit("\n---\nConstraints:\n- Requested Tone: '"),
         Interp(RequestedTone(tone)),
         Lit("'. Adhere strictly and consistently. Maintain original meaning precisely. ("),
         Lit("'Formal' = no contractions, etc."),
         Lit("; "),
         Lit("'Casual' = contractions, etc."),
         Lit("; "),
         Lit("'Creative' = vivid language/analogies, no new facts"),
         Lit(").\n- Quality: Ensure fluency and perfect grammar.\n- Output Format: Output *only* the rewritten text, no conversational filler.")>>) >>

\* Mutant: the example pair comes after the final instruction.
BuildMessagesExampleLast(b) ==
  LET m == IF b.mode = "summarize"
             THEN IF b.promptStructure \in {Undefined, "system-heavy"}
                    THEN SummarizeSystemHeavy(b.text, b.summaryLengthLevel)
                    ELSE SummarizeUserHeavy(b.text, b.summaryLengthLevel)
             ELSE IF b.promptStructure \in {Undefined, "system-heavy"}
                    THEN RewriteSystemHeavy(b.text, b.tone)
                    ELSE RewriteUserHeavy(b.text, b.tone)
  IN  <<m[1], m[4], m[2], m[3]>>

\* promptStructure = 'system-heavy' when the body does not give one.
PromptStructureOf(b) ==
  IF b.promptStructure = Undefined THEN "system-heavy" ELSE b.promptStructure

\* 3. Prompt construction.
BuildMessages(b) ==
  IF b.mode = "summarize"
    THEN IF PromptStructureOf(b) = "system-heavy"
           THEN SummarizeSystemHeavy(b.text, b.summaryLengthLevel)
           ELSE SummarizeUserHeavy(b.text, b.summaryLengthLevel)
    ELSE IF PromptStructureOf(b) = "system-heavy"
           THEN RewriteSystemHeavy(b.text, b.tone)
           ELSE RewriteUserHeavy(b.text, b.tone)

BuildPrompt ==
  /\ pc = "build"
  /\ selectedModel' = SelectedModel(body.model)
  /\ messages' = BuildMessages(body)
  /\ pc' = "call"
  /\ UNCHANGED <<env, body, trimmedTextLength, providerCalls, thrown,
                 response, clientVars>>

\* ------------------------------------------------------ POST: the LLM call

\* Generation parameters per model; temperatures in tenths.
LLM_PARAMS ==
  [m \in {"gpt-3.5-turbo", "gpt-4"} |->
     IF m = "gpt-3.5-turbo"
       THEN [temperature |->
               [summarize |-> [veryBrief |-> 3, default |-> 5, detailed |-> 7],
                rewrite |-> [formal |-> 5, casual |-> 7, creative |-> 9]],
             maxTokens |->
               [summarize |->
                  [veryBrief |-> 256, default |-> 512, detailed |-> 1024],
                rewrite |-> [default |-> 1024]]]
       ELSE [temperature |->
               [summarize |-> [veryBrief |-> 2, default |-> 4, detailed |-> 6],
                rewrite |-> [formal |-> 4, casual |-> 6, creative |-> 8]],
             maxTokens |->
               [summarize |->
                  [veryBrief |-> 512, default |-> 1024, detailed |-> 2048],
                rewrite |-> [default |-> 2048]]]]

\* Mutant: the brief and the detailed summarize temperatures are exchanged.
TemperatureBriefAndDetailedSwapped(mode, level, tone, model) ==
  IF mode = "summarize"
    THEN IF RequestedLengthLevel(level) <= 2
           THEN LLM_PARAMS[model].temperature.summarize.detailed
           ELSE IF RequestedLengthLevel(level) >= 4
             THEN LLM_PARAMS[model].temperature.summarize.veryBrief
             ELSE LLM_PARAMS[model].temperature.summarize.default
    ELSE LLM_PARAMS[model].temperature.rewrite[RequestedTone(tone)]

\* Mutant: a tone given with the request sets the temperature in both modes.
TemperatureOfToneWhenGiven(mode, level, tone, model) ==
  IF tone \in {"formal", "casual", "creative"}
    THEN LLM_PARAMS[model].temperature.rewrite[tone]
    ELSE IF RequestedLengthLevel(level) <= 2
           THEN LLM_PARAMS[model].temperature.summarize.veryBrief
           ELSE IF RequestedLengthLevel(level) >= 4
             THEN LLM_PARAMS[model].temperature.summarize.detailed
             ELSE LLM_PARAMS[model].temperature.summarize.default

\* The temperature argument of openai.chat.completions.create.
Temperature(mode, level, tone, model) ==
  IF mode = "summarize"
    THEN IF RequestedLengthLevel(level) <= 2
           THEN LLM_PARAMS[model].temperature.summarize.veryBrief
           ELSE IF RequestedLengthLevel(level) >= 4
             THEN LLM_PARAMS[model].temperature.summarize.detailed
             ELSE LLM_PARAMS[model].temperature.summarize.default
    ELSE LLM_PARAMS[model].temperature.rewrite[RequestedTone(tone)]

\* Mutant: every summarize request gets the default max_tokens.
MaxTokensAlwaysDefault(mode, level, model) ==
  IF mode = "summarize"
    THEN LLM_PARAMS[model].maxTokens.summarize.default
    ELSE LLM_PARAMS[model].maxTokens.rewrite.default

\* The max_tokens argument of openai.chat.completions.create.
MaxTokens(mode, level, model) ==
  IF mode = "summarize"
    THEN IF RequestedLengthLevel(level) <= 2
           THEN LLM_PARAMS[model].maxTokens.summarize.veryBrief
           ELSE IF RequestedLengthLevel(level) >= 4
             THEN LLM_PARAMS[model].maxTokens.summarize.detailed
             ELSE LLM_PARAMS[model].maxTokens.summarize.default
    ELSE LLM_PARAMS[model].maxTokens.rewrite.default

\* The arguments of one call of openai.chat.completions.create.
CompletionCall(b, model, msgs) ==
  [model |-> model, stream |-> TRUE, messages |-> msgs,
   temperature |-> Temperature(b.mode, b.summaryLengthLevel, b.tone, model),
   max_tokens |-> MaxTokens(b.mode, b.summaryLengthLevel, model)]

\* What the provider may answer with an error: an HTTP status (or none, when
\* the connection failed), an error code and an error type.
ProviderStatuses ==
  {StatusValue("number", n) : n \in {400, 401, 404, 429, 500, 503}}
  \cup {UndefinedStatus}

ApiErrors ==
  {Thrown("APIError", "Error", st, code, "api_error", "upstream error", "")
     : st \in ProviderStatuses, code \in {"content_filter", Null}}

\* Exceptions of the call that are no APIError.
LocalErrors ==
  {Thrown("Error", "Error", UndefinedStatus, Null, Null, m, st)
     : m \in {"fetch failed", "socket hang up"},
       st \in {"Error: at POST", "Error: at fetch"}}
  \cup {Thrown("other", "", UndefinedStatus, Null, Null, "", "")}

\* 4. The LLM API call (streaming): the provider opens a stream or the call
\* throws.
CallProvider ==
  /\ pc = "call"
  /\ providerCalls' =
       Append(providerCalls, CompletionCall(body, selectedModel, messages))
  /\ \/ /\ pc' = "stream"
        /\ thrown' = thrown
     \/ /\ \E e \in ApiErrors \cup LocalErrors : thrown' = e
        /\ pc' = "catch"
  /\ UNCHANGED <<env, body, trimmedTextLength, selectedModel, messages,
                 response, clientVars>>

\* 5. Stream processing and response.
ReturnStream ==
  /\ pc = "stream"
  /\ Return(StreamingTextResponse)

\* ------------------------------------------------- POST: the catch block

\* Mutant: the provider's status is not taken over.
StatusCodeAlways500(error) == 500

\* statusCode = error.status || 500
StatusCode(error) ==
  IF error.class = "APIError"
    THEN IF error.status.kind = "number" /\ error.status.n # 0
           THEN error.status.n
           ELSE 500
    ELSE 500

\* switch (error.status)
ApiErrorCode(error) ==
  CASE error.status = StatusValue("number", 400) ->
         IF error.code = "content_filter"
           THEN "AI_CONTENT_FILTER"
           ELSE "AI_BAD_REQUEST"
    [] error.status = StatusValue("number", 401) -> "AI_AUTH_ERROR"
    [] error.status = StatusValue("number", 429) -> "AI_RATE_LIMIT_ERROR"
    [] error.status = StatusValue("number", 500) -> "AI_SERVER_ERROR"
    [] error.status = StatusValue("number", 503) -> "AI_SERVICE_UNAVAILABLE"
    [] OTHER -> "AI_API_ERROR"

ErrorCode(error) ==
  IF error.class = "APIError"
    THEN ApiErrorCode(error)
    ELSE "INTERNAL_SERVER_ERROR"

\* error.message || fallback
MessageOr(error, fallback) ==
  IF error.message = "" THEN fallback ELSE error.message

ApiErrorMessage(error) ==
  CASE error.status = StatusValue("number", 400) ->
         IF error.code = "content_filter"
           THEN <<"Your request was blocked due to the AI service's content policy. Please modify your input text.">>
           ELSE <<"The request to the AI service was invalid. ",
                  MessageOr(error, "Please check your input or configuration.")>>
    [] error.status = StatusValue("number", 401) ->
         <<"Authentication with the AI service failed. Please check server configuration.">>
    [] error.status = StatusValue("number", 429) ->
         <<"The AI service is experiencing high traffic or rate limits have been exceeded. Please try again shortly.">>
    [] error.status = StatusValue("number", 500) ->
         <<"The AI service encountered an internal error. Please try again later.">>
    [] error.status = StatusValue("number", 503) ->
         <<"The AI service is temporarily unavailable or overloaded. Please try again later.">>
    [] OTHER ->
         <<"An error occurred with the AI service (Status: ",
           IF error.status.kind = "number"
             THEN ToString(error.status.n) ELSE "undefined",
           "). ", MessageOr(error, "Please try again.")>>

\* Mutant: the message of a local exception is returned in every build.
ErrorMessageLeaking(error, nodeEnv) ==
  CASE error.class = "APIError" -> ApiErrorMessage(error)
    [] error.class = "Error" -> <<error.message>>
    [] OTHER ->
         <<"An unexpected error occurred while processing your request.">>

ErrorMessage(error, nodeEnv) ==
  CASE error.class = "APIError" -> ApiErrorMessage(error)
    [] error.class = "Error" ->
         IF nodeEnv # "development"
           THEN <<"An unexpected error occurred.">>
           ELSE <<error.message>>
    [] OTHER ->
         <<"An unexpected error occurred while processing your request.">>

\* The opaque response headers of an APIError.
Headers == "<headers>"

\* Mutant: the details keep the provider's error code only.
ApiErrorDetailsCodeOnly(error) == [code |-> error.code]

ApiErrorDetails(error) ==
  CASE error.status = StatusValue("number", 400) ->
         [code |-> error.code, type |-> error.type]
    [] error.status = StatusValue("number", 401) -> [type |-> error.type]
    [] error.status = StatusValue("number", 429) ->
         [type |-> error.type, headers |-> Headers]
    [] error.status = StatusValue("number", 500) -> [type |-> error.type]
    [] error.status = StatusValue("number", 503) -> [type |-> error.type]
    [] OTHER ->
         [status |-> error.status, code |-> error.code, type |-> error.type]

ErrorDetails(error, nodeEnv) ==
  CASE error.class = "APIError" -> ApiErrorDetails(error)
    [] error.class = "Error" ->
         IF nodeEnv # "development"
           THEN NoDetails
           ELSE [name |-> error.name, stack |-> error.stack]
    [] OTHER -> NoDetails

\* catch (error: unknown) { ... return NextResponse.json(...) }
Catch ==
  /\ pc = "catch"
  /\ Return(JsonResponse(ErrorCode(thrown),
                         ErrorMessage(thrown, env.NODE_ENV),
                         ErrorDetails(thrown, env.NODE_ENV),
                         StatusCode(thrown)))

\* ---------------------------------------------------------- specification

Next ==
  \/ CheckApiKey
  \/ ParseBody
  \/ Destructure
  \/ CheckText
  \/ CheckLength
  \/ CheckMode
  \/ CheckOptions
  \/ CheckModel
  \/ BuildPrompt
  \/ CallProvider
  \/ ReturnStream
  \/ Catch

Spec == Init /\ [][Next]_vars

\* ------------------------------------------------------- the page (client)
\* HomePage.handleSubmit and the response body it reads. One request is in
\* flight at a time.

\* What the user may have typed and chosen before the first submit.
ClientTexts ==
  {Str(1, 0, 0), Str(0, MIN_INPUT_TEXT_LENGTH - 1, 0),
   Str(0, MIN_INPUT_TEXT_LENGTH, 0)}

Uis ==
  {[inputText |-> text, mode |-> "summarize", selectedTone |-> "formal",
    summaryLengthLevel |-> level, selectedModel |-> model] :
     text \in ClientTexts, level \in 1..5,
     model \in {"gpt-3.5-turbo", "gpt-4"}}
  \cup
  {[inputText |-> text, mode |-> "rewrite", selectedTone |-> tone,
    summaryLengthLevel |-> 3, selectedModel |-> model] :
     text \in ClientTexts, tone \in {"formal", "casual", "creative"},
     model \in {"gpt-3.5-turbo", "gpt-4"}}

\* body: JSON.stringify({text, mode, model, tone | summaryLengthLevel, ...})
ClientBody(u) ==
  Body("object", u.inputText, u.mode,
       IF u.mode = "rewrite" THEN u.selectedTone ELSE Undefined,
       IF u.mode = "summarize" THEN Num(u.summaryLengthLevel)
                               ELSE UndefinedLevel,
       u.selectedModel, "system-heavy")

\* toast({variant: "destructive", title, description})
Toast(title, retry) == [title |-> title, retry |-> retry]

ClientInit ==
  /\ env \in {e \in Envs : e.NODE_ENV = "production"}
  /\ body = FieldlessBody("object")
  /\ pc = "idle"
  /\ trimmedTextLength = 0
  /\ selectedModel = Undefined
  /\ messages = <<>>
  /\ providerCalls = <<>>
  /\ thrown = NoError
  /\ response = NoResponse
  /\ page = "part_001"
  /\ ui \in Uis
  /\ ClientAtRest

\* handleSubmit, up to the try block: nothing happens when the input is
\* blank or a request is loading; otherwise a new invocation starts, which
\* has no output and no response yet.
HandleSubmit ==
  /\ userActions' = userActions + 1
  /\ IF Length(Trim(ui.inputText)) = 0 \/ isLoading
       THEN UNCHANGED <<isLoading, finalOutput, stream, cpc>>
       ELSE /\ isLoading' = TRUE
            /\ finalOutput' = <<>>
            /\ stream' = NoStream
            /\ cpc' = "fetch"
  /\ UNCHANGED <<vars, generator, storeVars, page, ui, invocations, streamingState, historyEntries, toasts,
                 requestsSent>>

\* The user submits the form.
Submit ==
  /\ page = "part_001"
  /\ userActions < MaxSubmits
  /\ HandleSubmit

\* The user clicks Retry Now in the rate limit toast.
RetryClick ==
  /\ page = "part_001"
  /\ userActions < MaxSubmits
  /\ cpc = "idle"
  /\ toasts # <<>>
  /\ toasts[Len(toasts)].retry
  /\ HandleSubmit

\* await fetch('/api/process', ...): the request reaches the handler, or
\* fetch rejects.
Fetch ==
  /\ cpc = "fetch"
  /\ requestsSent' = requestsSent + 1
  /\ \/ /\ body' = ClientBody(ui)
        /\ pc' = "apiKey"
        /\ trimmedTextLength' = 0
        /\ selectedModel' = Undefined
        /\ messages' = <<>>
        /\ providerCalls' = <<>>
        /\ thrown' = NoError
        /\ response' = NoResponse
        /\ cpc' = "await"
     \/ /\ cpc' = "catch"
        /\ UNCHANGED <<body, pc, trimmedTextLength, selectedModel, messages,
                       providerCalls, thrown, response>>
  /\ UNCHANGED <<env, generator, storeVars, page, ui, invocations, isLoading, finalOutput,
                 streamingState, historyEntries, toasts, stream, userActions>>

\* Mutant: a rate limit error makes the page send the request again.
ReceiveResponseAutoRetry ==
  /\ cpc = "await"
  /\ pc = "done"
  /\ IF response.kind = "json"
       THEN IF response.code = "AI_RATE_LIMIT_ERROR"
              THEN /\ toasts' =
                        Append(toasts, Toast("Rate Limit Exceeded", TRUE))
                   /\ cpc' = "fetch"
                   /\ stream' = stream
              ELSE /\ toasts' = Append(toasts, Toast("Request Failed", FALSE))
                   /\ cpc' = "finally"
                   /\ stream' = stream
       ELSE /\ stream' = [state |-> "open", sent |-> 0, read |-> 0]
            /\ cpc' = "read"
            /\ toasts' = toasts
  /\ UNCHANGED <<vars, generator, storeVars, page, ui, invocations, isLoading, finalOutput, streamingState,
                 historyEntries, userActions, requestsSent>>

\* if (!response.ok) { toast(...); return; } and, for a streaming response,
\* response.body.getReader().
ReceiveResponse ==
  /\ cpc = "await"
  /\ pc = "done"
  /\ IF response.kind = "json"
       THEN IF response.code = "AI_RATE_LIMIT_ERROR"
              THEN /\ toasts' =
                        Append(toasts, Toast("Rate Limit Exceeded", TRUE))
                   /\ cpc' = "finally"
                   /\ stream' = stream
              ELSE /\ toasts' = Append(toasts, Toast("Request Failed", FALSE))
                   /\ cpc' = "finally"
                   /\ stream' = stream
       ELSE /\ stream' = [state |-> "open", sent |-> 0, read |-> 0]
            /\ cpc' = "read"
            /\ toasts' = toasts
  /\ UNCHANGED <<vars, generator, storeVars, page, ui, invocations, isLoading, finalOutput, streamingState,
                 historyEntries, userActions, requestsSent>>

\* The provider sends one more fragment, which OpenAIStream passes on.
ProviderFragment ==
  /\ stream.state = "open"
  /\ stream.sent < MaxFragments
  /\ stream' = [stream EXCEPT !.sent = @ + 1]
  /\ UNCHANGED <<vars, generator, storeVars, page, ui, invocations, isLoading, finalOutput, streamingState,
                 historyEntries, toasts, cpc, userActions, requestsSent>>

\* The provider ends the completion: the response body is closed.
ProviderEnd ==
  /\ stream.state = "open"
  /\ stream' = [stream EXCEPT !.state = "ended"]
  /\ UNCHANGED <<vars, generator, storeVars, page, ui, invocations, isLoading, finalOutput, streamingState,
                 historyEntries, toasts, cpc, userActions, requestsSent>>

\* The provider fails in mid-stream: the iteration that feeds the response
\* body throws, which puts the body in the errored state.
ProviderFail ==
  /\ stream.state = "open"
  /\ stream' = [stream EXCEPT !.state = "failed"]
  /\ UNCHANGED <<vars, generator, storeVars, page, ui, invocations, isLoading, finalOutput, streamingState,
                 historyEntries, toasts, cpc, userActions, requestsSent>>

\* Mutant: the fragment replaces the text displayed.
ReadChunkOverwrites ==
  /\ cpc = "read"
  /\ stream.read < stream.sent
  /\ stream' = [stream EXCEPT !.read = @ + 1]
  /\ finalOutput' = Append(finalOutput, stream.read + 1)
  /\ streamingState' = [streamingState EXCEPT !.text = <<stream.read + 1>>]
  /\ UNCHANGED <<vars, generator, storeVars, page, ui, invocations, isLoading, historyEntries, toasts, cpc,
                 userActions, requestsSent>>

\* reader.read() gives a fragment: finalOutput += chunk and the fragment is
\* appended to the text displayed. Fragments are numbered in the order sent.
ReadChunk ==
  /\ cpc = "read"
  /\ stream.read < stream.sent
  /\ stream' = [stream EXCEPT !.read = @ + 1]
  /\ finalOutput' = Append(finalOutput, stream.read + 1)
  /\ streamingState' =
       [streamingState EXCEPT !.text = Append(@, stream.read + 1)]
  /\ UNCHANGED <<vars, generator, storeVars, page, ui, invocations, isLoading, historyEntries, toasts, cpc,
                 userActions, requestsSent>>

\* reader.read() gives done: the loop ends.
ReadDone ==
  /\ cpc = "read"
  /\ stream.state = "ended"
  /\ stream.read = stream.sent
  /\ cpc' = "save"
  /\ UNCHANGED <<vars, generator, storeVars, page, ui, invocations, isLoading, finalOutput, streamingState,
                 historyEntries, toasts, stream, userActions, requestsSent>>

\* Mutant: a failed read ends the loop like the end of the stream.
ReadErrorAsDone ==
  /\ cpc = "read"
  /\ stream.state = "failed"
  /\ cpc' = "save"
  /\ UNCHANGED <<vars, generator, storeVars, page, ui, invocations, isLoading, finalOutput, streamingState,
                 historyEntries, toasts, stream, userActions, requestsSent>>

\* reader.read() rejects because the body is errored (fragments not yet
\* read may be lost): control passes to the catch block.
ReadError ==
  /\ cpc = "read"
  /\ stream.state = "failed"
  /\ cpc' = "catch"
  /\ UNCHANGED <<vars, generator, storeVars, page, ui, invocations, isLoading, finalOutput, streamingState,
                 historyEntries, toasts, stream, userActions, requestsSent>>

\* ------------------------------------------------ historyUtils (part_002)

\* isValidHistoryEntry, for the fields the model's entries carry.
isValidHistoryEntry(e) ==
  /\ e.mode \in {"summarize", "rewrite"}
  /\ e.options.tone \in {"formal", "casual", "creative"}
  /\ e.options.summaryLengthLevel \in 1..5

\* getHistoryFromLocalStorage: the stored list without its invalid entries
\* ([] when there is no item).
getHistoryFromLocalStorage(item) == SelectSeq(item, isValidHistoryEntry)

\* history.unshift(entry), history.slice(0, n) and history.pop().
Unshift(history, entry) == <<entry>> \o history
Slice(history, n) ==
  SubSeq(history, 1, IF Len(history) < n THEN Len(history) ELSE n)
Pop(history) ==
  IF history = <<>> THEN <<>> ELSE SubSeq(history, 1, Len(history) - 1)

\* saveHistoryEntryToLocalStorage: the lists the item can hold after the
\* call. setItem succeeds: the entry first, the list cut to
\* MAX_HISTORY_ENTRIES. setItem throws QuotaExceededError and the second
\* attempt succeeds: the entry first, the oldest entry dropped, no cut.
\* localStorage is not available or throws again: the item as it was.
saveHistoryEntryToLocalStorage(item, entry) ==
  {Slice(Unshift(getHistoryFromLocalStorage(item), entry),
         MAX_HISTORY_ENTRIES),
   Unshift(Pop(getHistoryFromLocalStorage(item)), entry),
   item}

\* clearHistoryFromLocalStorage: removeItem.
clearHistoryFromLocalStorage(item) == <<>>

\* The HistoryEntry handleSubmit builds (id and timestamp left out).
HistoryEntry(u, output) ==
  [inputText |-> u.inputText, outputText |-> output, mode |-> u.mode,
   options |-> [summaryLengthLevel |-> u.summaryLengthLevel,
                tone |-> u.selectedTone, model |-> u.selectedModel]]

\* SUCCESS POINT: the stream completed, the entry is added to the history.
SaveHistory ==
  /\ cpc = "save"
  /\ localStorage' \in
       saveHistoryEntryToLocalStorage(localStorage,
                                      HistoryEntry(ui, finalOutput))
  /\ historyEntries' = Append(historyEntries, HistoryEntry(ui, finalOutput))
  /\ cpc' = "finally"
  /\ UNCHANGED <<vars, generator, historyDisplay, now, page, ui, invocations, isLoading,
                 finalOutput, streamingState, toasts, stream, userActions,
                 requestsSent>>

\* Mutant: the catch block saves what was read before the failure.
ClientCatchSaves ==
  /\ cpc = "catch"
  /\ toasts' = Append(toasts, Toast("Operation Failed", FALSE))
  /\ localStorage' \in
       saveHistoryEntryToLocalStorage(localStorage,
                                      HistoryEntry(ui, finalOutput))
  /\ historyEntries' = Append(historyEntries, HistoryEntry(ui, finalOutput))
  /\ cpc' = "finally"
  /\ UNCHANGED <<vars, generator, historyDisplay, now, page, ui, invocations, isLoading,
                 finalOutput, streamingState, stream, userActions,
                 requestsSent>>

\* catch (clientError) { toast({title: "Operation Failed", ...}) }
ClientCatch ==
  /\ cpc = "catch"
  /\ toasts' = Append(toasts, Toast("Operation Failed", FALSE))
  /\ cpc' = "finally"
  /\ UNCHANGED <<vars, generator, storeVars, page, ui, invocations, isLoading, finalOutput, streamingState,
                 historyEntries, stream, userActions, requestsSent>>

\* finally { setIsLoading(false) }
Finally ==
  /\ cpc = "finally"
  /\ isLoading' = FALSE
  /\ cpc' = "idle"
  /\ UNCHANGED <<vars, generator, storeVars, page, ui, invocations, finalOutput, streamingState, historyEntries,
                 toasts, stream, userActions, requestsSent>>

ClientNext ==
  \/ Submit
  \/ RetryClick
  \/ Fetch
  \/ CheckApiKey
  \/ ParseBody
  \/ Destructure
  \/ CheckText
  \/ CheckLength
  \/ CheckMode
  \/ CheckOptions
  \/ CheckModel
  \/ BuildPrompt
  \/ CallProvider
  \/ ReturnStream
  \/ Catch
  \/ ReceiveResponse
  \/ ProviderFragment
  \/ ProviderEnd
  \/ ProviderFail
  \/ ReadChunk
  \/ ReadDone
  \/ ReadError
  \/ SaveHistory
  \/ ClientCatch
  \/ Finally

ClientSpec == ClientInit /\ [][ClientNext]_allVars

\* ------------------------------------------------- the page of page.tsx
\* handleSubmit of src/app/page.tsx. Its request has no model, so what the
\* server answers is taken as an input: any response the handler can give.

PageUis ==
  {[inputText |-> text, mode |-> m, selectedTone |-> "formal",
    summaryLengthLevel |-> 3, selectedModel |-> Undefined] :
     text \in ClientTexts, m \in {"summarize", "rewrite"}}

\* The responses fetch may resolve with.
ServerResponses ==
  {StreamingTextResponse,
   JsonResponse("INVALID_MODEL",
     <<"Invalid or missing model specified. Must be one of: gpt-3.5-turbo, gpt-4.">>,
     [receivedModel |-> Undefined, validModels |-> VALID_MODELS], 400),
   JsonResponse("AI_RATE_LIMIT_ERROR",
     <<"The AI service is experiencing high traffic or rate limits have been exceeded. Please try again shortly.">>,
     [type |-> "api_error", headers |-> Headers], 429)}

\* The submit button (disabled while isLoading) runs handleSubmit: nothing
\* happens when the input is blank; otherwise the streaming state is reset.
PageSubmit ==
  /\ page = "page.tsx"
  /\ userActions < MaxSubmits
  /\ ~isLoading
  /\ userActions' = userActions + 1
  /\ IF Length(Trim(ui.inputText)) = 0
       THEN UNCHANGED <<isLoading, streamingState, stream, cpc>>
       ELSE /\ isLoading' = TRUE
            /\ streamingState' = InitialStreamingState
            /\ stream' = NoStream
            /\ cpc' = "p_fetch"
  /\ UNCHANGED <<vars, generator, storeVars, page, ui, invocations, finalOutput, historyEntries, toasts,
                 requestsSent>>

\* await fetch('/api/process', ...): a response arrives, or fetch rejects.
PageFetch ==
  /\ cpc = "p_fetch"
  /\ requestsSent' = requestsSent + 1
  /\ \/ /\ response' \in ServerResponses
        /\ cpc' = "p_response"
     \/ /\ response' = response
        /\ cpc' = "p_catch"
  /\ UNCHANGED <<env, body, pc, trimmedTextLength, selectedModel, messages,
                 providerCalls, thrown, generator, storeVars, page, ui, invocations, isLoading,
                 finalOutput, streamingState, historyEntries, toasts, stream,
                 userActions>>

\* Mutant: the body is read whatever the status of the response.
PageReceiveResponseReadsAnyway ==
  /\ cpc = "p_response"
  /\ stream' = [state |-> "open", sent |-> 0, read |-> 0]
  /\ cpc' = "p_read"
  /\ UNCHANGED <<vars, generator, storeVars, page, ui, invocations, isLoading, finalOutput, streamingState,
                 historyEntries, toasts, userActions, requestsSent>>

\* if (!response.ok) { toast(...); setIsLoading(false); return; } and, for
\* a streaming response, response.body.getReader().
PageReceiveResponse ==
  /\ cpc = "p_response"
  /\ IF response.kind = "json"
       THEN /\ toasts' = Append(toasts, Toast("API Error", FALSE))
            /\ isLoading' = FALSE
            /\ cpc' = "idle"
            /\ stream' = stream
       ELSE /\ stream' = [state |-> "open", sent |-> 0, read |-> 0]
            /\ cpc' = "p_read"
            /\ UNCHANGED <<toasts, isLoading>>
  /\ UNCHANGED <<vars, generator, storeVars, page, ui, invocations, finalOutput, streamingState,
                 historyEntries, userActions, requestsSent>>

\* reader.read() gives a fragment: it is appended to streamingState.text and
\* counted.
PageReadChunk ==
  /\ cpc = "p_read"
  /\ stream.read < stream.sent
  /\ stream' = [stream EXCEPT !.read = @ + 1]
  /\ streamingState' =
       [streamingState EXCEPT !.text = Append(@, stream.read + 1),
                              !.chunks = @ + 1]
  /\ UNCHANGED <<vars, generator, storeVars, page, ui, invocations, isLoading, finalOutput, historyEntries,
                 toasts, cpc, userActions, requestsSent>>

\* reader.read() gives done: isComplete is set, the success toast is shown
\* and handleSubmit ends.
PageReadDone ==
  /\ cpc = "p_read"
  /\ stream.state = "ended"
  /\ stream.read = stream.sent
  /\ streamingState' = [streamingState EXCEPT !.isComplete = TRUE]
  /\ toasts' = Append(toasts, Toast("Processing Complete", FALSE))
  /\ cpc' = "idle"
  /\ UNCHANGED <<vars, generator, storeVars, page, ui, invocations, isLoading, finalOutput, historyEntries,
                 stream, userActions, requestsSent>>

\* reader.read() rejects: control passes to the catch block.
PageReadError ==
  /\ cpc = "p_read"
  /\ stream.state = "failed"
  /\ cpc' = "p_catch"
  /\ UNCHANGED <<vars, generator, storeVars, page, ui, invocations, isLoading, finalOutput, streamingState,
                 historyEntries, toasts, stream, userActions, requestsSent>>

\* Mutant: the catch block empties the output area.
PageCatchClearsOutput ==
  /\ cpc = "p_catch"
  /\ toasts' =
       Append(toasts,
              Toast(IF stream.state = "failed" THEN "Error"
                                               ELSE "Network Error", FALSE))
  /\ isLoading' = FALSE
  /\ streamingState' = InitialStreamingState
  /\ cpc' = "idle"
  /\ UNCHANGED <<vars, generator, storeVars, page, ui, invocations, finalOutput, historyEntries, stream,
                 userActions, requestsSent>>

\* catch (error) { toast(...); setIsLoading(false); }: 'Network Error' for
\* a TypeError of fetch, 'Error' otherwise.
PageCatch ==
  /\ cpc = "p_catch"
  /\ toasts' =
       Append(toasts,
              Toast(IF stream.state = "failed" THEN "Error"
                                               ELSE "Network Error", FALSE))
  /\ isLoading' = FALSE
  /\ cpc' = "idle"
  /\ UNCHANGED <<vars, generator, storeVars, page, ui, invocations, finalOutput, streamingState,
                 historyEntries, stream, userActions, requestsSent>>

\* handleReset, offered by PostStreamActions once the result is complete.
PageReset ==
  /\ page = "page.tsx"
  /\ streamingState.isComplete
  /\ streamingState' = InitialStreamingState
  /\ UNCHANGED <<vars, generator, storeVars, page, ui, invocations, isLoading, finalOutput, historyEntries,
                 toasts, cpc, stream, userActions, requestsSent>>

\* Either version of the page, from its first render.
PagesInit ==
  /\ env \in {e \in Envs : e.NODE_ENV = "production"}
  /\ body = FieldlessBody("object")
  /\ pc = "idle"
  /\ trimmedTextLength = 0
  /\ selectedModel = Undefined
  /\ messages = <<>>
  /\ providerCalls = <<>>
  /\ thrown = NoError
  /\ response = NoResponse
  /\ \/ page = "part_001" /\ ui \in Uis
     \/ page = "page.tsx" /\ ui \in PageUis
  /\ ClientAtRest

PagesNext ==
  \/ ClientNext
  \/ PageSubmit
  \/ PageFetch
  \/ PageReceiveResponse
  \/ PageReadChunk
  \/ PageReadDone
  \/ PageReadError
  \/ PageCatch
  \/ PageReset

PagesSpec == PagesInit /\ [][PagesNext]_allVars

\* The steps that need no user: the continuation of handleSubmit after each
\* await, the route handler and the provider's stream. The event loop runs a
\* continuation once its promise settles, and the provider's stream ends or
\* fails after finitely many fragments.
Progress ==
  \/ Fetch
  \/ CheckApiKey
  \/ ParseBody
  \/ Destructure
  \/ CheckText
  \/ CheckLength
  \/ CheckMode
  \/ CheckOptions
  \/ CheckModel
  \/ BuildPrompt
  \/ CallProvider
  \/ ReturnStream
  \/ Catch
  \/ ReceiveResponse
  \/ ProviderFragment
  \/ ProviderEnd
  \/ ProviderFail
  \/ ReadChunk
  \/ ReadDone
  \/ ReadError
  \/ SaveHistory
  \/ ClientCatch
  \/ Finally
  \/ PageFetch
  \/ PageReceiveResponse
  \/ PageReadChunk
  \/ PageReadDone
  \/ PageReadError
  \/ PageCatch

\* Either page, with every started submission running to its end.
PagesFairSpec == PagesSpec /\ WF_allVars(Progress)

\* ------------------------- part_001 when calls of handleSubmit may overlap

\* A call of handleSubmit that passed the guard: let finalOutput = '', no
\* response yet. via tells who called: the form or the Retry Now button.
NewInvocation(via) ==
  [pc |-> "fetch", via |-> via, stream |-> NoStream, finalOutput |-> <<>>]

\* The form's onSubmit calls the handleSubmit of the current render, whose
\* isLoading is the current state (and the button is disabled while it is
\* true).
OverlapSubmit ==
  /\ Len(invocations) < MaxInvocations
  /\ Length(Trim(ui.inputText)) > 0
  /\ ~isLoading
  /\ isLoading' = TRUE
  /\ invocations' = Append(invocations, NewInvocation("submit"))
  /\ UNCHANGED <<vars, generator, storeVars, page, ui, finalOutput, streamingState, historyEntries,
                 toasts, cpc, stream, userActions, requestsSent>>

\* <RetryButton onClick={() => handleSubmit(event)} />: the button calls the
\* handleSubmit of the render in which the failed submission started. That
\* call passed the guard, so in this closure inputText is not blank and
\* isLoading is false, whatever the state is now.
OverlapRetryNow ==
  /\ Len(invocations) < MaxInvocations
  /\ toasts # <<>>
  /\ toasts[Len(toasts)].retry
  /\ isLoading' = TRUE
  /\ invocations' = Append(invocations, NewInvocation("retry"))
  /\ UNCHANGED <<vars, generator, storeVars, page, ui, finalOutput, streamingState, historyEntries,
                 toasts, cpc, stream, userActions, requestsSent>>

\* await fetch(...) of call i settles: with an error response (toast, then
\* return), with a streaming response (the read loop starts), or rejected.
OverlapResponse(i) ==
  /\ invocations[i].pc = "fetch"
  /\ \/ \E r \in ServerResponses :
          IF r.kind = "json"
            THEN /\ toasts' =
                      Append(toasts,
                             IF r.code = "AI_RATE_LIMIT_ERROR"
                               THEN Toast("Rate Limit Exceeded", TRUE)
                               ELSE Toast("Request Failed", FALSE))
                 /\ invocations' = [invocations EXCEPT ![i].pc = "finally"]
            ELSE /\ toasts' = toasts
                 /\ invocations' =
                      [invocations EXCEPT
                         ![i].pc = "read",
                         ![i].stream = [state |-> "open", sent |-> 0,
                                        read |-> 0]]
     \/ /\ toasts' = toasts
        /\ invocations' = [invocations EXCEPT ![i].pc = "catch"]
  /\ UNCHANGED <<vars, generator, storeVars, page, ui, isLoading, finalOutput, streamingState,
                 historyEntries, cpc, stream, userActions, requestsSent>>

\* The provider sends a fragment on the response of call i, ends it or
\* fails.
OverlapProvider(i) ==
  /\ invocations[i].stream.state = "open"
  /\ \/ /\ invocations[i].stream.sent < MaxFragments
        /\ invocations' = [invocations EXCEPT ![i].stream.sent = @ + 1]
     \/ invocations' = [invocations EXCEPT ![i].stream.state = "ended"]
     \/ invocations' = [invocations EXCEPT ![i].stream.state = "failed"]
  /\ UNCHANGED <<vars, generator, storeVars, page, ui, isLoading, finalOutput, streamingState,
                 historyEntries, toasts, cpc, stream, userActions,
                 requestsSent>>

\* One turn of the read loop of call i: a fragment (appended to the call's
\* finalOutput and to the text displayed, tagged here with the call it
\* belongs to), the end of the stream, or a rejected read.
OverlapRead(i) ==
  /\ invocations[i].pc = "read"
  /\ LET st == invocations[i].stream IN
       \/ /\ st.read < st.sent
          /\ invocations' =
               [invocations EXCEPT
                  ![i].stream.read = @ + 1,
                  ![i].finalOutput = Append(@, st.read + 1)]
          /\ streamingState' =
               [streamingState EXCEPT !.text = Append(@, <<i, st.read + 1>>)]
       \/ /\ st.state = "ended"
          /\ st.read = st.sent
          /\ invocations' = [invocations EXCEPT ![i].pc = "save"]
          /\ streamingState' = streamingState
       \/ /\ st.state = "failed"
          /\ invocations' = [invocations EXCEPT ![i].pc = "catch"]
          /\ streamingState' = streamingState
  /\ UNCHANGED <<vars, generator, storeVars, page, ui, isLoading, finalOutput, historyEntries,
                 toasts, cpc, stream, userActions, requestsSent>>

\* The rest of call i, which runs without a further await: the history
\* entry after a completed stream or the toast of the catch block, then
\* finally { setIsLoading(false) }.
OverlapFinish(i) ==
  /\ invocations[i].pc \in {"save", "catch", "finally"}
  /\ historyEntries' =
       IF invocations[i].pc = "save"
         THEN Append(historyEntries,
                     HistoryEntry(ui, invocations[i].finalOutput))
         ELSE historyEntries
  /\ toasts' =
       IF invocations[i].pc = "catch"
         THEN Append(toasts, Toast("Operation Failed", FALSE))
         ELSE toasts
  /\ localStorage' \in
       IF invocations[i].pc = "save"
         THEN saveHistoryEntryToLocalStorage(
                localStorage, HistoryEntry(ui, invocations[i].finalOutput))
         ELSE {localStorage}
  /\ isLoading' = FALSE
  /\ invocations' = [invocations EXCEPT ![i].pc = "done"]
  /\ UNCHANGED <<vars, generator, historyDisplay, now, page, ui, finalOutput,
                 streamingState, cpc, stream, userActions, requestsSent>>

OverlapInit ==
  /\ env \in {e \in Envs : e.NODE_ENV = "production"}
  /\ body = FieldlessBody("object")
  /\ pc = "idle"
  /\ trimmedTextLength = 0
  /\ selectedModel = Undefined
  /\ messages = <<>>
  /\ providerCalls = <<>>
  /\ thrown = NoError
  /\ response = NoResponse
  /\ page = "part_001"
  /\ ui \in {u \in Uis : Length(Trim(u.inputText)) > 0 /\ u.mode = "summarize"
                            /\ u.summaryLengthLevel = 3}
  /\ ClientAtRest

OverlapNext ==
  \/ OverlapSubmit
  \/ OverlapRetryNow
  \/ \E i \in DOMAIN invocations : OverlapResponse(i)
  \/ \E i \in DOMAIN invocations : OverlapProvider(i)
  \/ \E i \in DOMAIN invocations : OverlapRead(i)
  \/ \E i \in DOMAIN invocations : OverlapFinish(i)

OverlapSpec == OverlapInit /\ [][OverlapNext]_allVars

\* -------------------- the stored history and HistoryDisplay (second version)

\* The entry a completed submission saves: crypto.randomUUID() gives an id
\* no other entry has, Date.now() the time t.
StoredEntry(id, t) ==
  [id |-> id, timestamp |-> t, inputText |-> Str(0, MIN_INPUT_TEXT_LENGTH, 0),
   outputText |-> <<>>, mode |-> "summarize",
   options |-> [summaryLengthLevel |-> 3, tone |-> "formal",
                model |-> "gpt-4"]]

\* The comparator of loadHistory's sort: negative when a goes before b.
Compare(a, b, sortBy) ==
  IF sortBy = "newest" THEN b.timestamp - a.timestamp
                       ELSE a.timestamp - b.timestamp

\* [...loadedHistory].sort(comparator): Array.prototype.sort is stable, so
\* an entry goes after the entries that do not go after it.
InsertSorted(sorted, e, sortBy) ==
  LET k == Cardinality({i \in DOMAIN sorted :
                          Compare(sorted[i], e, sortBy) <= 0})
  IN  SubSeq(sorted, 1, k) \o <<e>> \o SubSeq(sorted, k + 1, Len(sorted))

RECURSIVE SortHistory(_, _)
SortHistory(list, sortBy) ==
  IF list = <<>>
    THEN <<>>
    ELSE InsertSorted(SortHistory(SubSeq(list, 1, Len(list) - 1), sortBy),
                      list[Len(list)], sortBy)

\* loadHistory's effect on the entries displayed. When getItem gives null
\* nothing is set; when it gives a list, the sorted list is set. The model
\* does not tell a missing item from a stored empty list, so for <<>> both
\* outcomes are possible.
LoadedHistory(item, display) ==
  IF item = <<>>
    THEN {display.historyEntries, <<>>}
    ELSE {SortHistory(item, display.sortBy)}

\* A submission completes and its entry is saved (handleSubmit's SUCCESS
\* POINT). The clock does not go back.
HistorySave ==
  /\ userActions < MaxSaves
  /\ \E t \in {now, now + 1} :
       /\ now' = t
       /\ localStorage' \in
            saveHistoryEntryToLocalStorage(localStorage,
                                           StoredEntry(userActions + 1, t))
  /\ userActions' = userActions + 1
  /\ UNCHANGED <<vars, generator, historyDisplay, page, ui, invocations, isLoading,
                 finalOutput, streamingState, historyEntries, toasts, cpc,
                 stream, requestsSent>>

\* loadHistory: on mount and by the refresh button.
HistoryLoad ==
  /\ \E loaded \in LoadedHistory(localStorage, historyDisplay) :
       historyDisplay' = [historyDisplay EXCEPT !.historyEntries = loaded]
  /\ UNCHANGED <<vars, generator, localStorage, now, page, ui, invocations, isLoading,
                 finalOutput, streamingState, historyEntries, toasts, cpc,
                 stream, userActions, requestsSent>>

\* toggleSort, and the effect on [sortBy] that runs loadHistory.
HistoryToggleSort ==
  /\ LET toggled ==
           [historyDisplay EXCEPT
              !.sortBy = IF @ = "newest" THEN "oldest" ELSE "newest"]
     IN  \E loaded \in LoadedHistory(localStorage, toggled) :
           historyDisplay' = [toggled EXCEPT !.historyEntries = loaded]
  /\ UNCHANGED <<vars, generator, localStorage, now, page, ui, invocations, isLoading,
                 finalOutput, streamingState, historyEntries, toasts, cpc,
                 stream, userActions, requestsSent>>

\* handleDelete(id): the entries displayed, without the one deleted, are
\* set and stored.
HistoryDelete ==
  /\ \E k \in DOMAIN historyDisplay.historyEntries :
       LET id == historyDisplay.historyEntries[k].id
           updatedHistory ==
             SelectSeq(historyDisplay.historyEntries,
                       LAMBDA entry : entry.id # id)
       IN  /\ historyDisplay' =
                [historyDisplay EXCEPT !.historyEntries = updatedHistory]
           /\ localStorage' = updatedHistory
  /\ UNCHANGED <<vars, generator, now, page, ui, invocations, isLoading, finalOutput,
                 streamingState, historyEntries, toasts, cpc, stream,
                 userActions, requestsSent>>

\* handleClearHistory: the item is removed and nothing is displayed.
HistoryClear ==
  /\ localStorage' = clearHistoryFromLocalStorage(localStorage)
  /\ historyDisplay' = [historyDisplay EXCEPT !.historyEntries = <<>>]
  /\ UNCHANGED <<vars, generator, now, page, ui, invocations, isLoading, finalOutput,
                 streamingState, historyEntries, toasts, cpc, stream,
                 userActions, requestsSent>>

\* An empty store, the panel as it first renders.
HistoryInit ==
  /\ env \in {e \in Envs : e.NODE_ENV = "production"}
  /\ body = FieldlessBody("object")
  /\ pc = "idle"
  /\ trimmedTextLength = 0
  /\ selectedModel = Undefined
  /\ messages = <<>>
  /\ providerCalls = <<>>
  /\ thrown = NoError
  /\ response = NoResponse
  /\ page = "part_001"
  /\ ui = InitialUi
  /\ ClientAtRest

HistoryNext ==
  \/ HistorySave
  \/ HistoryLoad
  \/ HistoryToggleSort
  \/ HistoryDelete
  \/ HistoryClear

HistorySpec == HistoryInit /\ [][HistoryNext]_allVars

\* ------------------------------------ processTextAction (actions.ts)

\* What the provider call or the iteration of its stream can throw. The
\* openai package defines the error classes; whether RateLimitError and
\* APIConnectionError are instances of APIError is its matter, so both are
\* possible here.
ProviderErrors ==
  {[class |-> "APIError", isAPIError |-> TRUE, isError |-> TRUE,
    status |-> st, message |-> "Bad gateway"] : st \in {"429", "502"}}
  \cup
  {[class |-> c, isAPIError |-> a, isError |-> TRUE, status |-> "429",
    message |-> "Too many requests"] :
     c \in {"RateLimitError", "APIConnectionError"}, a \in BOOLEAN}
  \cup
  {[class |-> "Error", isAPIError |-> FALSE, isError |-> TRUE, status |-> "",
    message |-> m] : m \in {"Request Timeout", "socket hang up", ""}}
  \cup
  {[class |-> "string", isAPIError |-> FALSE, isError |-> FALSE,
    status |-> "", message |-> "aborted"]}

\* error.message.toLowerCase().includes('timeout')
IncludesTimeout(message) == message \in {"Request Timeout"}

\* handleOpenAIError: the message and the type for what was thrown, by the
\* first instanceof test that holds.
handleOpenAIError(error) ==
  IF error.isAPIError
    THEN [error |-> <<"OpenAI API Error (", error.status, "): ", error.message>>,
          errorType |-> "API_ERROR", success |-> FALSE]
  ELSE IF error.class = "RateLimitError"
    THEN [error |-> <<"Rate limit exceeded. Please try again in a few moments.">>,
          errorType |-> "RATE_LIMIT_ERROR", success |-> FALSE]
  ELSE IF error.class = "APIConnectionError"
    THEN [error |-> <<"Failed to connect to OpenAI API. Please check your internet connection.">>,
          errorType |-> "CONNECTION_ERROR", success |-> FALSE]
  ELSE IF error.isError
    THEN IF IncludesTimeout(error.message)
           THEN [error |-> <<"Request timed out. Please try again.">>,
                 errorType |-> "TIMEOUT_ERROR", success |-> FALSE]
           ELSE [error |-> <<"Error: ", error.message>>,
                 errorType |-> "GENERAL_ERROR", success |-> FALSE]
  ELSE [error |-> <<"An unexpected error occurred: ", error.message>>,
        errorType |-> "UNKNOWN_ERROR", success |-> FALSE]

\* { content, done } and { content, done, error }: error is <<>> when the
\* item has none.
NoItemError == <<>>
Item(content, done, error) ==
  [content |-> content, done |-> done, error |-> error]

\* yield item
Yield(g, item) == [g EXCEPT !.yielded = Append(@, item)]

\* The texts a run is given: empty, blank, not blank.
ActionTexts == {Str(0, 0, 0), Str(1, 0, 0), Str(0, 1, 0), Str(1, 1, 1)}

\* The run up to the try block: without a client, or with an empty or
\* blank text, one item with the error is yielded and the run returns.
ActionStart ==
  /\ generator.pc = "start"
  /\ generator' =
       IF ~generator.client
         THEN [Yield(generator,
                     Item(<<>>, TRUE,
                          <<"Server configuration error: AI service is unavailable. Please check server logs.">>))
                 EXCEPT !.pc = "returned"]
       ELSE IF Length(generator.text) = 0 \/ Length(Trim(generator.text)) = 0
         THEN [Yield(generator,
                     Item(<<>>, TRUE, <<"Input text cannot be empty.">>))
                 EXCEPT !.pc = "returned"]
       ELSE [generator EXCEPT !.pc = "create"]
  /\ UNCHANGED <<vars, storeVars, page, ui, invocations, isLoading,
                 finalOutput, streamingState, historyEntries, toasts, cpc,
                 stream, userActions, requestsSent>>

\* await openai.chat.completions.create({..., stream: true}): the stream,
\* or an exception.
ActionCreate ==
  /\ generator.pc = "create"
  /\ \/ generator' = [generator EXCEPT !.pc = "loop"]
     \/ \E e \in ProviderErrors :
          generator' = [generator EXCEPT !.pc = "catch", !.thrown = e]
  /\ UNCHANGED <<vars, storeVars, page, ui, invocations, isLoading,
                 finalOutput, streamingState, historyEntries, toasts, cpc,
                 stream, userActions, requestsSent>>

\* for await (const chunk of stream): the next chunk. Its content is
\* chunk.choices[0]?.delta?.content || '': 0 stands for no content, a
\* piece of content for its number in the order sent. A chunk with content
\* is added to accumulatedContent and yielded.
ActionChunk ==
  /\ generator.pc = "loop"
  /\ Len(generator.chunks) < MaxChunks
  /\ \E c \in {0, Len(generator.accumulatedContent) + 1} :
       generator' =
         IF c = 0
           THEN [generator EXCEPT !.chunks = Append(@, c)]
           ELSE Yield([generator EXCEPT
                         !.chunks = Append(@, c),
                         !.accumulatedContent = Append(@, c)],
                      Item(<<c>>, FALSE, NoItemError))
  /\ UNCHANGED <<vars, storeVars, page, ui, invocations, isLoading,
                 finalOutput, streamingState, historyEntries, toasts, cpc,
                 stream, userActions, requestsSent>>

\* The stream ends: yield { content: accumulatedContent, done: true }.
ActionStreamEnd ==
  /\ generator.pc = "loop"
  /\ generator' =
       [Yield(generator, Item(generator.accumulatedContent, TRUE, NoItemError))
          EXCEPT !.pc = "returned"]
  /\ UNCHANGED <<vars, storeVars, page, ui, invocations, isLoading,
                 finalOutput, streamingState, historyEntries, toasts, cpc,
                 stream, userActions, requestsSent>>

\* The iteration of the stream throws.
ActionStreamFail ==
  /\ generator.pc = "loop"
  /\ \E e \in ProviderErrors :
       generator' = [generator EXCEPT !.pc = "catch", !.thrown = e]
  /\ UNCHANGED <<vars, storeVars, page, ui, invocations, isLoading,
                 finalOutput, streamingState, historyEntries, toasts, cpc,
                 stream, userActions, requestsSent>>

\* Mutant: the error item carries what was accumulated.
ActionCatchKeepsContent ==
  /\ generator.pc = "catch"
  /\ generator' =
       [Yield(generator,
              Item(generator.accumulatedContent, TRUE,
                   handleOpenAIError(generator.thrown).error))
          EXCEPT !.pc = "returned"]
  /\ UNCHANGED <<vars, storeVars, page, ui, invocations, isLoading,
                 finalOutput, streamingState, historyEntries, toasts, cpc,
                 stream, userActions, requestsSent>>

\* catch (error): yield { content: '', done: true, error }.
ActionCatch ==
  /\ generator.pc = "catch"
  /\ generator' =
       [Yield(generator,
              Item(<<>>, TRUE, handleOpenAIError(generator.thrown).error))
          EXCEPT !.pc = "returned"]
  /\ UNCHANGED <<vars, storeVars, page, ui, invocations, isLoading,
                 finalOutput, streamingState, historyEntries, toasts, cpc,
                 stream, userActions, requestsSent>>

\* processTextAction(text, options) is called. There is no client when
\* OPENAI_API_KEY is missing or new OpenAI(...) threw.
ActionInit ==
  /\ env \in {e \in Envs : e.NODE_ENV = "production"}
  /\ body = FieldlessBody("object")
  /\ pc = "idle"
  /\ trimmedTextLength = 0
  /\ selectedModel = Undefined
  /\ messages = <<>>
  /\ providerCalls = <<>>
  /\ thrown = NoError
  /\ response = NoResponse
  /\ page = "page.tsx"
  /\ ui = InitialUi
  /\ isLoading = FALSE
  /\ finalOutput = <<>>
  /\ streamingState = InitialStreamingState
  /\ historyEntries = <<>>
  /\ toasts = <<>>
  /\ cpc = "idle"
  /\ stream = NoStream
  /\ userActions = 0
  /\ requestsSent = 0
  /\ invocations = <<>>
  /\ localStorage = <<>>
  /\ historyDisplay = [historyEntries |-> <<>>, sortBy |-> "newest"]
  /\ now = 0
  /\ \E text \in ActionTexts,
        client \in IF env.OPENAI_API_KEY THEN BOOLEAN ELSE {FALSE} :
       generator = [NoGenerator EXCEPT !.pc = "start", !.text = text,
                                       !.client = client]

ActionNext ==
  \/ ActionStart
  \/ ActionCreate
  \/ ActionChunk
  \/ ActionStreamEnd
  \/ ActionStreamFail
  \/ ActionCatch

ActionSpec == ActionInit /\ [][ActionNext]_allVars

\* ------------------------------------------------------------------ claims
\* What the specification says of a request, stated on the request itself.

KeyPresent == env.OPENAI_API_KEY
Responded == pc = "done"

\* The trimmed length of a string of shape [lead, core, trail] is its core.
TextPresent(b) == b.text.kind = "string" /\ b.text.core > 0
TextLongEnough(b) == b.text.core >= 10
TextShortEnough(b) == b.text.core <= 20000
TextAcceptable(b) ==
  TextPresent(b) /\ TextLongEnough(b) /\ TextShortEnough(b)
ModeAcceptable(b) == b.mode \in {"summarize", "rewrite"}
OptionAcceptable(b) ==
  /\ b.mode = "summarize" =>
       b.summaryLengthLevel.kind = "number" /\ b.summaryLengthLevel.n \in 1..5
  /\ b.mode = "rewrite" => b.tone \in {"formal", "casual", "creative"}
ModelAcceptable(b) == b.model \in {"gpt-3.5-turbo", "gpt-4"}

RequestValid(b) ==
  /\ b.kind = "object"
  /\ TextAcceptable(b)
  /\ ModeAcceptable(b)
  /\ OptionAcceptable(b)
  /\ ModelAcceptable(b)

\* The first check a body fails, in the order (a) body parse, (b) text
\* presence, (c) length, (d) mode, (e) mode-specific option, (f) model.
FirstFailingCheck(b) ==
  CASE b.kind = "malformed" -> "a"
    [] b.kind = "object" /\ ~TextPresent(b) -> "b"
    [] b.kind = "object" /\ TextPresent(b) /\ ~TextLongEnough(b) -> "c-min"
    [] b.kind = "object" /\ TextPresent(b) /\ ~TextShortEnough(b) -> "c-max"
    [] b.kind = "object" /\ TextAcceptable(b) /\ ~ModeAcceptable(b) -> "d"
    [] b.kind = "object" /\ TextAcceptable(b) /\ ModeAcceptable(b)
         /\ ~OptionAcceptable(b) -> "e"
    [] b.kind = "object" /\ TextAcceptable(b) /\ ModeAcceptable(b)
         /\ OptionAcceptable(b) /\ ~ModelAcceptable(b) -> "f"
    [] OTHER -> "none"

\* The check an error code belongs to.
CheckOfCode(code) ==
  CASE code = "INVALID_JSON" -> "a"
    [] code = "MISSING_TEXT" -> "b"
    [] code = "TEXT_TOO_SHORT" -> "c-min"
    [] code = "TEXT_TOO_LONG" -> "c-max"
    [] code = "INVALID_MODE" -> "d"
    [] code \in {"INVALID_SUMMARY_LEVEL", "MISSING_SUMMARY_LEVEL",
                 "INVALID_TONE", "MISSING_TONE"} -> "e"
    [] code = "INVALID_MODEL" -> "f"
    [] OTHER -> "other"

\* C1: validation is short-circuiting in the order (a)..(f): a body (not
\* JSON at all, or a JSON object) that fails some check is answered with the
\* code of the first check it fails.
C1_FirstFailingCheckDecides ==
  (Responded /\ KeyPresent /\ FirstFailingCheck(body) # "none") =>
    /\ response.kind = "json"
    /\ CheckOfCode(response.code) = FirstFailingCheck(body)

\* C2: the completion provider is called only after every validation check
\* has passed; a request that fails a check never leads to a provider call.
C2_CallOnlyAfterValidation ==
  /\ providerCalls # <<>> => KeyPresent /\ RequestValid(body)
  /\ pc \in {"apiKey", "parse", "destructure", "check2a", "check2b",
             "check2c", "check2d", "check2e", "build", "call"} =>
       providerCalls = <<>>

C2_Witness ==
  /\ Responded
  /\ Len(providerCalls) = 1
  /\ response.kind = "stream"

\* C3: for an otherwise valid request the length check is inclusive at both
\* bounds: trimmed length below 10 is TEXT_TOO_SHORT, above 20000 is
\* TEXT_TOO_LONG, 10 to 20000 is accepted; a rejection carries the limit and
\* the actual trimmed length in details.
OtherwiseValid(b) ==
  /\ b.kind = "object"
  /\ TextPresent(b)
  /\ ModeAcceptable(b)
  /\ OptionAcceptable(b)
  /\ ModelAcceptable(b)

C3_LengthBoundsInclusive ==
  (Responded /\ KeyPresent /\ OtherwiseValid(body)) =>
    /\ body.text.core <= 9 =>
         /\ response.code = "TEXT_TOO_SHORT"
         /\ response.details = [minLength |-> 10,
                                actualLength |-> body.text.core]
    /\ body.text.core >= 20001 =>
         /\ response.code = "TEXT_TOO_LONG"
         /\ response.details = [maxLength |-> 20000,
                                actualLength |-> body.text.core]
    /\ body.text.core \in 10..20000 =>
         /\ response.code \notin {"TEXT_TOO_SHORT", "TEXT_TOO_LONG",
                                  "MISSING_TEXT"}
         /\ providerCalls # <<>>

C3_Witness ==
  /\ Responded
  /\ KeyPresent
  /\ OtherwiseValid(body)
  /\ body.text.core = 9
  /\ Length(body.text) >= 10
  /\ response.code = "TEXT_TOO_SHORT"

\* C4: every body that does not parse as the expected shape (not JSON, or
\* JSON that is no object, such as null) is rejected with INVALID_JSON: the
\* handler does not throw on it, and answers with that code.
C4_NonObjectBodyIsInvalidJson ==
  (KeyPresent /\ body.kind # "object") =>
    /\ thrown = NoError
    /\ Responded =>
         /\ response.kind = "json"
         /\ response.code = "INVALID_JSON"

C6_InvalidOptionCodes ==
  (Responded /\ KeyPresent /\ body.kind = "object" /\ TextAcceptable(body)
     /\ ModeAcceptable(body) /\ ~OptionAcceptable(body)) =>
    /\ response.kind = "json"
    /\ body.mode = "summarize" => response.code = "INVALID_SUMMARY_LEVEL"
    /\ body.mode = "rewrite" => response.code = "INVALID_TONE"

\* C6 (amended): such a request is rejected with status 400 and the code
\* MISSING_SUMMARY_LEVEL (summarize) or MISSING_TONE (rewrite), for a missing
\* option and for one outside its set alike, and no provider call is made.
C6_MissingOptionCodes ==
  (Responded /\ KeyPresent /\ body.kind = "object" /\ TextAcceptable(body)
     /\ ModeAcceptable(body) /\ ~OptionAcceptable(body)) =>
    /\ response.kind = "json"
    /\ response.status = 400
    /\ body.mode = "summarize" => response.code = "MISSING_SUMMARY_LEVEL"
    /\ body.mode = "rewrite" => response.code = "MISSING_TONE"
    /\ providerCalls = <<>>

C6_Witness ==
  /\ Responded
  /\ KeyPresent
  /\ body.kind = "object"
  /\ TextAcceptable(body)
  /\ body.mode = "summarize"
  /\ body.summaryLengthLevel = Num(6)
  /\ response.code = "MISSING_SUMMARY_LEVEL"

\* C7: a request that passes the earlier checks and whose model is missing or
\* unsupported is rejected with INVALID_MODEL; the model sent to the provider
\* always equals the model of the request (no fallback to the default).
C7_InvalidModelNoFallback ==
  /\ (Responded /\ KeyPresent /\ body.kind = "object" /\ TextAcceptable(body)
        /\ ModeAcceptable(body) /\ OptionAcceptable(body)
        /\ ~ModelAcceptable(body)) =>
       /\ response.kind = "json"
       /\ response.code = "INVALID_MODEL"
       /\ response.status = 400
       /\ providerCalls = <<>>
  /\ \A i \in DOMAIN providerCalls : providerCalls[i].model = body.model
  /\ pc \in {"call", "stream"} => selectedModel = body.model

C7_Witness ==
  /\ Responded
  /\ KeyPresent
  /\ body.kind = "object"
  /\ TextAcceptable(body)
  /\ ModeAcceptable(body)
  /\ OptionAcceptable(body)
  /\ body.model = Undefined
  /\ response.code = "INVALID_MODEL"

\* C8: every client-input error (malformed body, missing or out-of-range
\* text, invalid mode, option or model) is answered with HTTP status 400.
C8_ClientErrorsAre400 ==
  (Responded /\ KeyPresent /\ ~RequestValid(body)) =>
    /\ response.kind = "json"
    /\ response.status = 400

FailureTable(status, contentPolicy) ==
  CASE status = 400 /\ contentPolicy -> "AI_CONTENT_FILTER"
    [] status = 400 /\ ~contentPolicy -> "AI_BAD_REQUEST"
    [] status = 401 -> "AI_AUTH_ERROR"
    [] status = 429 -> "AI_RATE_LIMIT_ERROR"
    [] status = 500 -> "AI_SERVER_ERROR"
    [] status = 503 -> "AI_SERVICE_UNAVAILABLE"
    [] OTHER -> "AI_API_ERROR"

\* C10: a provider error with HTTP status s is answered with the code the
\* failure table gives for s, and with HTTP status s.
C10_ProviderErrorMapping ==
  (Responded /\ thrown.class = "APIError" /\ thrown.status.kind = "number") =>
    /\ response.kind = "json"
    /\ response.code =
         FailureTable(thrown.status.n, thrown.code = "content_filter")
    /\ response.status = thrown.status.n

C10_Witness ==
  /\ Responded
  /\ thrown.class = "APIError"
  /\ thrown.status = StatusValue("number", 429)
  /\ response.code = "AI_RATE_LIMIT_ERROR"
  /\ response.status = 429

\* The statuses the switch of the catch block has a case for.
ListedStatuses == {StatusValue("number", n) : n \in {400, 401, 429, 500, 503}}

\* C11 (as stated): the details of every mapped provider error carry the
\* provider's HTTP status, its error code and its error type.
C11_DetailsCarryStatusCodeType ==
  (Responded /\ thrown.class = "APIError") =>
    /\ HasDetails(response)
    /\ {"status", "code", "type"} \subseteq DOMAIN response.details
    /\ response.details.status = thrown.status
    /\ response.details.code = thrown.code
    /\ response.details.type = thrown.type

\* C11 (amended): the details of every mapped provider error carry the
\* provider's error type; they carry the error code exactly for status 400
\* and for the statuses the switch does not list, and the status exactly for
\* the statuses the switch does not list.
C11_DetailsCarryType ==
  (Responded /\ thrown.class = "APIError") =>
    /\ HasDetails(response)
    /\ "type" \in DOMAIN response.details
    /\ response.details.type = thrown.type
    /\ "code" \in DOMAIN response.details <=>
         (thrown.status = StatusValue("number", 400)
            \/ thrown.status \notin ListedStatuses)
    /\ "code" \in DOMAIN response.details =>
         response.details.code = thrown.code
    /\ "status" \in DOMAIN response.details <=>
         thrown.status \notin ListedStatuses
    /\ "status" \in DOMAIN response.details =>
         response.details.status = thrown.status

C11_Witness ==
  /\ Responded
  /\ thrown.class = "APIError"
  /\ thrown.status = StatusValue("number", 401)
  /\ response.code = "AI_AUTH_ERROR"
  /\ response.details = [type |-> "api_error"]

\* The fixed text a local exception is answered with outside development
\* mode: one for Error objects, one for thrown values that are no Error.
LocalGenericMessage(class) ==
  IF class = "Error"
    THEN <<"An unexpected error occurred.">>
    ELSE <<"An unexpected error occurred while processing your request.">>

\* C12: a local, non-provider exception is answered with HTTP 500 and code
\* INTERNAL_SERVER_ERROR; outside development mode the whole response is a
\* fixed one that does not mention the exception's message, name or stack
\* (so two runs that differ only in these return the same response); a
\* response that carries them is a response of development mode.
C12_LocalExceptionHidden ==
  (Responded /\ thrown.class \in {"Error", "other"}) =>
    /\ response.kind = "json"
    /\ response.status = 500
    /\ response.code = "INTERNAL_SERVER_ERROR"
    /\ env.NODE_ENV # "development" =>
         response = JsonResponse("INTERNAL_SERVER_ERROR",
                                 LocalGenericMessage(thrown.class),
                                 NoDetails, 500)
    /\ (response.error = <<thrown.message>> \/ HasDetails(response)) =>
         env.NODE_ENV = "development"
    /\ (env.NODE_ENV = "development" /\ thrown.class = "Error") =>
         /\ response.error = <<thrown.message>>
         /\ response.details =
              [name |-> thrown.name, stack |-> thrown.stack]

C12_Witness ==
  /\ Responded
  /\ env.NODE_ENV = "production"
  /\ thrown.class = "Error"
  /\ thrown.message = "socket hang up"
  /\ thrown.stack = "Error: at fetch"
  /\ response.error = <<"An unexpected error occurred.">>
  /\ ~HasDetails(response)

C14_NoAutomaticRetry ==
  /\ Len(providerCalls) <= 1
  /\ thrown.class = "APIError" =>
       /\ Len(providerCalls) = 1
       /\ pc \in {"catch", "done"}
       /\ pc = "done" =>
            response.kind = "json" /\ response.code = ErrorCode(thrown)
  /\ requestsSent <= userActions

C14_Witness ==
  /\ userActions = 2
  /\ requestsSent = 2
  /\ cpc = "idle"
  /\ thrown.class = "APIError"
  /\ response.code = "AI_RATE_LIMIT_ERROR"
  /\ Len(providerCalls) = 1
  /\ Len(toasts) = 2
  /\ toasts[1].retry

\* ------------------------------------------------- claims about the prompt

\* The arguments of the completion call of the request being handled.
Called == providerCalls # <<>>
TheCall == providerCalls[1]
Roles(msgs) == [i \in DOMAIN msgs |-> msgs[i].role]
FinalMessage(msgs) == msgs[Len(msgs)]
HasPart(m, p) == \E i \in DOMAIN m.content : m.content[i] = p
SystemHeavy(b) == b.promptStructure \in {Undefined, "system-heavy"}

\* C15: the messages sent to the provider are, in this order, the system
\* message, the example pair (user "Example Text", then assistant) and,
\* last, the user message that holds the input text.
C15_MessageOrder ==
  Called =>
    /\ Roles(TheCall.messages) = <<"system", "user", "assistant", "user">>
    /\ HasPart(TheCall.messages[2], Lit("Example Text:\n---\n"))
    /\ \E ex \in {examples.summarize.veryBrief, examples.summarize.detailed,
                   examples.rewrite.formal, examples.rewrite.casual,
                   examples.rewrite.creative} :
         /\ TheCall.messages[2] = ExampleUser(ex)
         /\ TheCall.messages[3] = ExampleAssistant(ex)
    /\ HasPart(FinalMessage(TheCall.messages), TextPart(body.text))
    /\ \A i \in 1..3 : ~HasPart(TheCall.messages[i], TextPart(body.text))

C15_Witness ==
  /\ Responded
  /\ Called
  /\ body.mode = "rewrite"
  /\ body.promptStructure = "user-heavy"
  /\ TheCall.messages[1] = MinimalSystem

\* The label of a detail level, as the specification lists them.
LevelLabel(n) == <<"Very Brief", "Short", "Medium", "Long", "Detailed">>[n]

\* C16 (as stated): the final message of the prompt of a valid summarize
\* request holds the label of its level and the input text verbatim.
C16_FinalMessageHasLabelAndText ==
  (Called /\ body.mode = "summarize") =>
    /\ HasPart(FinalMessage(TheCall.messages),
               Interp(LevelLabel(body.summaryLengthLevel.n)))
    /\ HasPart(FinalMessage(TheCall.messages), TextPart(body.text))

\* C16 (amended): the final message holds the input text verbatim; the
\* label of the level is held by the final message under the user-heavy
\* structure and by the system message, and not by the final message, under
\* the system-heavy structure.
C16_LabelWhereTheInstructionsAre ==
  (Called /\ body.mode = "summarize") =>
    LET label == Interp(LevelLabel(body.summaryLengthLevel.n))
        first == TheCall.messages[1]
        final == FinalMessage(TheCall.messages)
    IN  /\ HasPart(final, TextPart(body.text))
        /\ SystemHeavy(body) => HasPart(first, label) /\ ~HasPart(final, label)
        /\ ~SystemHeavy(body) => HasPart(final, label) /\ ~HasPart(first, label)

C16_Witness ==
  /\ Responded
  /\ Called
  /\ body.mode = "summarize"
  /\ body.summaryLengthLevel = Num(4)
  /\ body.promptStructure = Undefined
  /\ body.text.lead = 1
  /\ HasPart(TheCall.messages[1], Interp("Long"))
  /\ HasPart(TheCall.messages[4], TextPart(body.text))

\* The texts that define a tone, in the wording of either template.
ToneRules(tone) ==
  CASE tone = "formal" ->
         {Lit("'Formal' = no contractions, sophisticated vocabulary"),
          Lit("'Formal' = no contractions, etc.")}
    [] tone = "casual" ->
         {Lit("'Casual' = contractions, simpler language"),
          Lit("'Casual' = contractions, etc.")}
    [] tone = "creative" ->
         {Lit("'Creative' = vivid language/analogies, no new facts")}

HasRuleOf(m, tone) == \E r \in ToneRules(tone) : HasPart(m, r)

\* C17 (as stated): the final message of the prompt of a valid rewrite
\* request holds the name of the requested tone and the defining rule of no
\* other tone.
C17_FinalMessageHasOnlyRequestedTone ==
  (Called /\ body.mode = "rewrite") =>
    /\ HasPart(FinalMessage(TheCall.messages), Interp(body.tone))
    /\ \A t \in {"formal", "casual", "creative"} \ {body.tone} :
         ~HasRuleOf(FinalMessage(TheCall.messages), t)

\* C17 (amended): the message that carries the instructions (the system
\* message under the system-heavy structure, the final message under the
\* user-heavy one) holds the name of the requested tone, and no other tone's
\* name, as the requested tone, together with the defining rules of all
\* three tones; the other of the two holds neither; the example pair is the
\* one of the requested tone.
C17_ToneWhereTheInstructionsAre ==
  (Called /\ body.mode = "rewrite") =>
    LET first == TheCall.messages[1]
        final == FinalMessage(TheCall.messages)
        instr == IF SystemHeavy(body) THEN first ELSE final
        other == IF SystemHeavy(body) THEN final ELSE first
        tones == {"formal", "casual", "creative"}
    IN  /\ \A t \in tones : HasPart(instr, Interp(t)) <=> t = body.tone
        /\ \A t \in tones : HasRuleOf(instr, t)
        /\ \A t \in tones : ~HasPart(other, Interp(t)) /\ ~HasRuleOf(other, t)
        /\ TheCall.messages[2] = ExampleUser(examples.rewrite[body.tone])
        /\ TheCall.messages[3] = ExampleAssistant(examples.rewrite[body.tone])

C17_Witness ==
  /\ Responded
  /\ Called
  /\ body.mode = "rewrite"
  /\ body.tone = "casual"
  /\ body.promptStructure = "user-heavy"
  /\ HasPart(TheCall.messages[4], Interp("casual"))
  /\ HasRuleOf(TheCall.messages[4], "formal")
  /\ HasRuleOf(TheCall.messages[4], "creative")

\* -------------------------------------------- claims about the parameters

\* A body without the option its mode does not use.
WithoutIrrelevantOption(b) ==
  IF b.mode = "summarize"
    THEN [b EXCEPT !.tone = Undefined]
    ELSE [b EXCEPT !.summaryLengthLevel = UndefinedLevel]

\* The codes and details fields that tell of the option the mode does not
\* use.
IrrelevantCodes(b) ==
  IF b.mode = "summarize"
    THEN {"MISSING_TONE", "INVALID_TONE"}
    ELSE {"MISSING_SUMMARY_LEVEL", "INVALID_SUMMARY_LEVEL"}
IrrelevantFields(b) ==
  IF b.mode = "summarize" THEN {"receivedTone", "validTones"}
                          ELSE {"receivedLevel", "validLevels"}

\* C18: the outcome of a summarize request is that of the same request
\* without its tone, and the outcome of a rewrite request is that of the same
\* request without its summaryLengthLevel: it is accepted if and only if
\* that request is valid, the completion call is the one built from that
\* request, and a rejection names the check that request fails first and
\* tells nothing of the option.
C18_IrrelevantOptionIgnored ==
  (Responded /\ KeyPresent /\ body.kind = "object"
     /\ body.mode \in {"summarize", "rewrite"}) =>
    LET b == WithoutIrrelevantOption(body)
    IN  /\ Called <=> RequestValid(b)
        /\ Called =>
             TheCall = CompletionCall(b, b.model, BuildMessages(b))
        /\ ~Called =>
             /\ response.kind = "json"
             /\ response.code \notin IrrelevantCodes(body)
             /\ DOMAIN response.details \cap IrrelevantFields(body) = {}
             /\ body.text.kind # "nonstring" =>
                  CheckOfCode(response.code) = FirstFailingCheck(b)

C18_Witness ==
  /\ Responded
  /\ Called
  /\ body.mode = "summarize"
  /\ body.tone = "angry"
  /\ body.summaryLengthLevel = Num(5)
  /\ TheCall.temperature = 7
  /\ response.kind = "stream"

\* The place of a tone in the order formal, casual, creative.
ToneRank(tone) ==
  CASE tone = "formal" -> 1 [] tone = "casual" -> 2 [] tone = "creative" -> 3

\* C19: the temperature of a summarize call is at least that of every lower
\* level and at most that of every higher level on the same model, and level
\* 1 gets a lower temperature than level 5; the temperature of a rewrite
\* call is above that of every tone earlier in the order formal, casual,
\* creative and below that of every later tone.
C19_TemperatureOrder ==
  Called =>
    LET m == TheCall.model
        T(l) == Temperature("summarize", Num(l), body.tone, m)
        R(t) == Temperature("rewrite", body.summaryLengthLevel, t, m)
    IN  /\ body.mode = "summarize" =>
             /\ TheCall.temperature = T(body.summaryLengthLevel.n)
             /\ \A k \in 1..5 :
                  /\ k <= body.summaryLengthLevel.n => T(k) <= TheCall.temperature
                  /\ k >= body.summaryLengthLevel.n => T(k) >= TheCall.temperature
             /\ T(1) < T(5)
        /\ body.mode = "rewrite" =>
             /\ TheCall.temperature = R(body.tone)
             /\ \A t \in {"formal", "casual", "creative"} :
                  /\ ToneRank(t) < ToneRank(body.tone) =>
                       R(t) < TheCall.temperature
                  /\ ToneRank(t) > ToneRank(body.tone) =>
                       R(t) > TheCall.temperature

C19_Witness ==
  /\ Responded
  /\ Called
  /\ body.mode = "summarize"
  /\ body.summaryLengthLevel = Num(1)
  /\ TheCall.model = "gpt-4"
  /\ TheCall.temperature = 2
  /\ Temperature("summarize", Num(5), body.tone, "gpt-4") = 6

\* C20: the max_tokens of a summarize call is at least that of every lower
\* level and at most that of every higher level for the same text and
\* model, and levels 1 and 5 get different values.
C20_MaxTokensOrder ==
  (Called /\ body.mode = "summarize") =>
    LET m == TheCall.model
        M(l) == MaxTokens("summarize", Num(l), m)
    IN  /\ TheCall.max_tokens = M(body.summaryLengthLevel.n)
        /\ \A k \in 1..5 :
             /\ k <= body.summaryLengthLevel.n => M(k) <= TheCall.max_tokens
             /\ k >= body.summaryLengthLevel.n => M(k) >= TheCall.max_tokens
        /\ M(1) # M(5)

C20_Witness ==
  /\ Responded
  /\ Called
  /\ body.mode = "summarize"
  /\ body.summaryLengthLevel = Num(5)
  /\ TheCall.model = "gpt-3.5-turbo"
  /\ TheCall.max_tokens = 1024
  /\ MaxTokens("summarize", Num(1), "gpt-3.5-turbo") = 256

\* --------------------------------------------------- claims about the page

\* The fragments 1..n in the order the provider sent them.
Fragments(n) == [i \in 1..n |-> i]
IsSuffix(s, t) ==
  /\ Len(t) <= Len(s)
  /\ SubSeq(s, Len(s) - Len(t) + 1, Len(s)) = t

\* handleSubmit has left its read loop through the end of the stream.
StreamReadToEnd ==
  \/ page = "part_001" /\ stream.state = "ended"
       /\ cpc \in {"save", "finally", "idle"}
  \/ page = "page.tsx" /\ stream.state = "ended" /\ cpc = "idle"

\* C21: after n fragments were read, the text accumulated for the
\* submission is fragments 1..n in order, the displayed text ends with them
\* (one append per fragment), and once the end of the stream was read n is
\* the number of fragments sent.
C21_FragmentsAppendedInOrder ==
  stream.state # "none" =>
    /\ page = "part_001" =>
         /\ finalOutput = Fragments(stream.read)
         /\ IsSuffix(streamingState.text, finalOutput)
    /\ page = "page.tsx" =>
         \/ /\ streamingState.text = Fragments(stream.read)
            /\ streamingState.chunks = stream.read
         \/ StreamReadToEnd /\ streamingState = InitialStreamingState
    /\ StreamReadToEnd => stream.read = stream.sent

C21_Witness ==
  /\ page = "page.tsx"
  /\ StreamReadToEnd
  /\ stream.sent = 2
  /\ streamingState.text = <<1, 2>>
  /\ streamingState.chunks = 2

\* C22: the read loop runs only on a streaming response, and the step that
\* takes an error response shows one more toast, does not start the read
\* loop and leaves the displayed text, the accumulated text and the response
\* body as they were.
C22_ErrorResponseNotRead ==
  /\ [](cpc \in {"read", "p_read"} => response.kind = "stream")
  /\ [][(cpc \in {"await", "p_response"} /\ response.kind = "json"
           /\ cpc' # cpc) =>
          /\ cpc' \in {"finally", "idle"}
          /\ Len(toasts') = Len(toasts) + 1
          /\ toasts'[Len(toasts')].title \in
               {"Rate Limit Exceeded", "Request Failed", "API Error"}
          /\ streamingState' = streamingState
          /\ finalOutput' = finalOutput
          /\ stream' = stream]_allVars

C22_Witness ==
  /\ page = "part_001"
  /\ cpc = "idle"
  /\ response.kind = "json"
  /\ toasts # <<>>
  /\ toasts[Len(toasts)] = Toast("Request Failed", FALSE)
  /\ streamingState.text = <<1, 2>>
  /\ stream = NoStream

\* C23: when reading the stream fails after some fragments, the fragments
\* read so far stay displayed: while the stream is failed the displayed text
\* ends with them, and no step taken then (the rejected read, the catch
\* block, the finally block) changes the displayed text other than by
\* appending one more fragment.
C23_FailureKeepsFragments ==
  /\ [](stream.state = "failed" =>
          IsSuffix(streamingState.text, Fragments(stream.read)))
  /\ [][(stream.state = "failed" /\ stream'.state = "failed") =>
          \/ streamingState'.text = streamingState.text
          \/ /\ stream'.read = stream.read + 1
             /\ streamingState'.text =
                  Append(streamingState.text, stream'.read)]_allVars

\* The read failed after the first fragment, the handler is over and the
\* fragment is still displayed, on either page.
C23_Witness ==
  /\ stream.state = "failed" /\ stream.read = 1 /\ cpc = "idle"
  /\ streamingState.text = <<1>>
  /\ toasts # <<>>
  /\ toasts[Len(toasts)].title \in {"Error", "Operation Failed"}

\* C24: once the end of the stream has been read the result is marked final
\* (isComplete is true until the user resets the page), and isComplete is
\* never true before the end-of-stream signal of the current response was
\* read.
C24_CompleteAtEndOfStream ==
  /\ StreamReadToEnd =>
        \/ streamingState.isComplete
        \/ page = "page.tsx" /\ streamingState = InitialStreamingState
  /\ streamingState.isComplete => StreamReadToEnd

\* C25: in part_001, once a submission's stream has completed and its
\* history entry is saved, the text shown in the output area equals the
\* outputText of that entry, for the first submission and for later ones.
C25_DisplayedTextIsSavedOutput ==
  (page = "part_001" /\ stream.state = "ended"
     /\ cpc \in {"finally", "idle"} /\ historyEntries # <<>>) =>
    streamingState.text = historyEntries[Len(historyEntries)].outputText

\* C26: after every submission (completed stream, error response or
\* exception) isLoading eventually returns to false, on both pages.
C26_LoadingEventuallyFalse == isLoading ~> ~isLoading

\* The calls of handleSubmit that wait for their response or read it.
InFlight == {i \in DOMAIN invocations : invocations[i].pc \in {"fetch", "read"}}

\* The fragments of each call displayed next to each other.
NotInterleaved ==
  LET text == streamingState.text IN
    \A a, b, c \in DOMAIN text :
      (a < b /\ b < c /\ text[a][1] = text[c][1]) => text[b][1] = text[a][1]

\* C27: in part_001 at most one submission is in flight: while a call of
\* handleSubmit waits for its response or reads it, neither the submit
\* button nor Retry Now starts another, so the fragments of two responses
\* are never interleaved in the text displayed.
C27_OneSubmissionInFlight ==
  /\ Cardinality(InFlight) <= 1
  /\ NotInterleaved

\* C28: in part_001 the history entry is saved exactly once per submission
\* whose stream is read to its end, with the concatenation of that
\* submission's fragments as outputText: the page's list and the stored
\* list change only in the step after the end of the stream was read, that
\* step adds exactly one entry, and no path through an error response or
\* through the catch block reaches it.
C28_SavedOncePerCompletedStream ==
  /\ [](Len(historyEntries) <= requestsSent)
  /\ [][(historyEntries' # historyEntries \/ localStorage' # localStorage) =>
          (cpc = "save" /\ cpc' = "finally")]_allVars
  /\ [][cpc' = "save" =>
          /\ cpc \in {"read", "save"}
          /\ stream.state = "ended"
          /\ stream.read = stream.sent
          /\ finalOutput = Fragments(stream.sent)]_allVars
  /\ [][(cpc = "save" /\ cpc' # cpc) =>
          /\ historyEntries' =
               Append(historyEntries, HistoryEntry(ui, Fragments(stream.sent)))
          /\ localStorage' # localStorage =>
               localStorage'[1] = HistoryEntry(ui, Fragments(stream.sent))]_allVars

\* Two submissions completed; the second one's two fragments are the
\* outputText of the newest entry, in the page's list and in the store.
C28_Witness ==
  /\ page = "part_001" /\ cpc = "idle" /\ Len(historyEntries) = 2
  /\ historyEntries[2].outputText = <<1, 2>>
  /\ Len(localStorage) = 2 /\ localStorage[1] = historyEntries[2]

\* The stored list holds its entries newest first.
NewestFirst(list) ==
  \A i, j \in DOMAIN list : i < j => list[i].timestamp >= list[j].timestamp

\* C29: from an empty store, after any sequence of saves, single-entry
\* deletes and clears, the stored list holds at most MAX_HISTORY_ENTRIES
\* entries, newest first; so a save that trims discards only entries at
\* least as old as every entry it keeps.
C29_StoredListBoundedNewestFirst ==
  /\ [](Len(localStorage) <= MAX_HISTORY_ENTRIES /\ NewestFirst(localStorage))
  /\ [][userActions' # userActions =>
          \A old \in DOMAIN localStorage :
            (\A k \in DOMAIN localStorage' :
               localStorage'[k].id # localStorage[old].id) =>
              \A k \in DOMAIN localStorage' :
                localStorage[old].timestamp <= localStorage'[k].timestamp]_allVars

\* The contents of the items, one after the other.
RECURSIVE Contents(_)
Contents(items) ==
  IF items = <<>>
    THEN <<>>
    ELSE Contents(SubSeq(items, 1, Len(items) - 1))
           \o items[Len(items)].content

\* The items yielded before the last one (all of them while the run has
\* not returned).
Earlier ==
  IF generator.pc = "returned"
    THEN SubSeq(generator.yielded, 1, Len(generator.yielded) - 1)
    ELSE generator.yielded

\* The run met none of the three failures.
RunSucceeded ==
  /\ generator.pc = "returned"
  /\ generator.client
  /\ Length(Trim(generator.text)) > 0
  /\ generator.thrown.class = "none"

\* C30: every run of processTextAction yields exactly one item with done =
\* true, and it is the last; the earlier items have done = false, content
\* that is not empty and no error, in the provider's order; on success the
\* final content is the concatenation of the earlier contents and there is
\* no error; without a client, with an empty text or when the provider
\* fails, the final item carries an error and empty content.
C30_OneFinalItem ==
  generator.pc # "none" =>
    /\ \A i \in DOMAIN Earlier :
         /\ ~Earlier[i].done
         /\ Earlier[i].content # <<>>
         /\ Earlier[i].error = NoItemError
    /\ Contents(Earlier) = SelectSeq(generator.chunks, LAMBDA c : c # 0)
    /\ generator.pc = "returned" =>
         /\ generator.yielded # <<>>
         /\ generator.yielded[Len(generator.yielded)].done
         /\ LET final == generator.yielded[Len(generator.yielded)] IN
              IF RunSucceeded
                THEN final.content = Contents(Earlier)
                       /\ final.error = NoItemError
                ELSE final.content = <<>> /\ final.error # NoItemError

\* The provider failed after a chunk with content and a chunk without: one
\* item, then the final item with the error.
C30_Witness ==
  /\ generator.pc = "returned" /\ generator.chunks = <<1, 0>>
  /\ generator.thrown.class = "RateLimitError"
  /\ Len(generator.yielded) = 2
  /\ generator.yielded[2].error # NoItemError

====
